---- MODULE Spec2Model ----
(***************************************************************************)
(* Ingestion-and-reconciliation pipeline of ct-summarizer.                 *)
(*                                                                         *)
(*   - DatabaseManager.saveTweetsToDatabase (src/data.js) on one sqlite3   *)
(*     connection, at the granularity of one SQL statement together with   *)
(*     the JavaScript callback that receives its result;                   *)
(*   - TwitterPoller.fetchAndStoreAllFollowings (src/spider.js), the       *)
(*     cursor walker, at the granularity of one loop iteration;           *)
(*   - DatabaseManager.getTweetsInTimeRange (src/data.js);                 *)
(*   - RequestThrottler, TwitterSummarizer.generateAndSaveSummary and      *)
(*     _callAIWithRetry (src/index.js), one action per await;              *)
(*   - the collection job: startPolling, pollAllLists, pollAllUsers.       *)
(***************************************************************************)
EXTENDS Integers, Sequences, FiniteSets, TLC

----------------------------------------------------------------------------
(* Bounds of the model                                                     *)

\* longest input array handed to saveTweetsToDatabase
MaxTweets == 3
\* CONFIG.BATCH_SIZE (src/data.js:28) is 30; scaled down so that an input
\* of MaxTweets posts is cut into more than one batch
BATCH_SIZE == 2
\* largest value of an engagement counter
MaxCount == 1
\* number of saveTweetsToDatabase calls in one behaviour
MaxCalls == 2
\* number of statements that the store may fail in one behaviour
MaxFaults == 1

----------------------------------------------------------------------------
(* Posts                                                                   *)

Ids == {"p1", "p2"}
\* what checkStmt.get yields when no row has the id
NoRow == [id |-> "none"]

CounterNames ==
    {"retweet_count", "like_count", "reply_count",
     "quote_count", "bookmark_count", "view_count"}

\* author of a post (getUserTweets stamps the polled user on each post)
AuthorOf(i) == IF i = "p1" THEN "u1" ELSE "u2"
\* created_at of a post as the platform formats it (tweet.legacy.created_at)
CreatedAtOf(i) == IF i = "p1" THEN "T1" ELSE IF i = "p2" THEN "T2" ELSE "T3"
Users == {"u1", "u2"}

\* an incoming post: all counters 0 except counter f, which is v
MkTweet(i, t, f, v) ==
    [id             |-> i,
     user_id        |-> AuthorOf(i),
     text           |-> t,
     created_at     |-> CreatedAtOf(i),
     retweet_count  |-> IF f = "retweet_count"  THEN v ELSE 0,
     like_count     |-> IF f = "like_count"     THEN v ELSE 0,
     reply_count    |-> IF f = "reply_count"    THEN v ELSE 0,
     quote_count    |-> IF f = "quote_count"    THEN v ELSE 0,
     bookmark_count |-> IF f = "bookmark_count" THEN v ELSE 0,
     view_count     |-> IF f = "view_count"     THEN v ELSE 0]

\* the row  INSERT INTO tweets (...) VALUES (...)  writes for post tw at time now
InsertedRow(tw, now) ==
    [id             |-> tw.id,
     user_id        |-> tw.user_id,
     text           |-> tw.text,
     created_at     |-> tw.created_at,
     retweet_count  |-> tw.retweet_count,
     like_count     |-> tw.like_count,
     reply_count    |-> tw.reply_count,
     quote_count    |-> tw.quote_count,
     bookmark_count |-> tw.bookmark_count,
     view_count     |-> tw.view_count,
     collected_at   |-> now]

\* a plausible slip: the update rewrites the whole row from the incoming post
UpdatedRowAllFields(row, tw, now) ==
    [row EXCEPT !.text           = tw.text,
                !.retweet_count  = tw.retweet_count,
                !.like_count     = tw.like_count,
                !.reply_count    = tw.reply_count,
                !.quote_count    = tw.quote_count,
                !.bookmark_count = tw.bookmark_count,
                !.view_count     = tw.view_count,
                !.collected_at   = now]

\* the row after  UPDATE tweets SET <six counters>, collected_at WHERE id = ?
UpdatedRow(row, tw, now) ==
    [row EXCEPT !.retweet_count  = tw.retweet_count,
                !.like_count     = tw.like_count,
                !.reply_count    = tw.reply_count,
                !.quote_count    = tw.quote_count,
                !.bookmark_count = tw.bookmark_count,
                !.view_count     = tw.view_count,
                !.collected_at   = now]

\* a plausible slip: the comparison forgets the last counter
hasChangedNoViews(existingTweet, tweet) ==
    \/ existingTweet.retweet_count  # tweet.retweet_count
    \/ existingTweet.like_count     # tweet.like_count
    \/ existingTweet.reply_count    # tweet.reply_count
    \/ existingTweet.quote_count    # tweet.quote_count
    \/ existingTweet.bookmark_count # tweet.bookmark_count

\* a plausible slip: the comparison also looks at collected_at, which the
\* incoming post never carries
hasChangedAlways(existingTweet, tweet) ==
    \/ existingTweet.retweet_count  # tweet.retweet_count
    \/ existingTweet.like_count     # tweet.like_count
    \/ existingTweet.collected_at   # -1

hasChanged(existingTweet, tweet) ==
    \/ existingTweet.retweet_count  # tweet.retweet_count
    \/ existingTweet.like_count     # tweet.like_count
    \/ existingTweet.reply_count    # tweet.reply_count
    \/ existingTweet.quote_count    # tweet.quote_count
    \/ existingTweet.bookmark_count # tweet.bookmark_count
    \/ existingTweet.view_count     # tweet.view_count

SameCounters(row, tw) ==
    \A f \in CounterNames : row[f] = tw[f]

----------------------------------------------------------------------------
(* State                                                                   *)

VARIABLES
    probe,       \* the counter in which the posts of this behaviour differ
    tweets,      \* table tweets as the connection sees it: id -> row or NoRow
    txOpen,      \* the connection is inside BEGIN ... COMMIT/ROLLBACK
    txOwner,     \* the call whose BEGIN opened the transaction (0: none)
    txSnapshot,  \* table at BEGIN: what ROLLBACK restores
    calls,       \* one record per saveTweetsToDatabase call
    clock,       \* wall clock, read by  new Date().toISOString()
    faults,      \* statements the store has failed so far
    walk,        \* the one fetchAndStoreAllFollowings run
    query,       \* the one getTweetsInTimeRange call
    throttler,   \* the summarizer's RequestThrottler
    gens,        \* one record per generateAndSaveSummary call
    summaries,   \* table summaries: a set of rows
    sfaults,     \* store operations of the summary path failed so far
    cycles,      \* one record per firing of the collection job
    ai,          \* the one _callAIWithRetry call
    now,         \* local wall clock of the summarizer, in seconds
    sched,       \* scheduleJobs: what started each generation, and when
    timeRange,   \* results of the calculateTimeRange calls made directly
    usave,       \* table users, the saveUser calls and the statement queues
    history,     \* answers of the GET /api/summary routes so far
    proc         \* the process being started: program, environment, progress

storeVars == <<probe, tweets, txOpen, txOwner, txSnapshot, calls, clock, faults>>
\* state outside the store's write path and the walker
summaryVars == <<throttler, gens, summaries, sfaults>>
timeVars == <<now, sched, timeRange>>
webVars == <<history, proc>>
appVars == <<query, summaryVars, cycles, ai, timeVars, usave, webVars>>
\* what the actions of one component leave alone
queryFrame == <<storeVars, walk, summaryVars, cycles, ai, timeVars, usave,
    webVars>>
summaryFrame == <<storeVars, walk, query, cycles, ai, timeVars, usave,
    webVars>>
scheduleFrame == <<storeVars, walk, query, cycles, ai, timeRange, usave,
    webVars>>
timeFrame == <<storeVars, walk, query, summaryVars, cycles, ai, sched, usave,
    webVars>>
historyFrame == <<storeVars, walk, query, summaryVars, cycles, ai, timeVars, usave,
    proc>>
startupFrame == <<storeVars, walk, query, summaryVars, cycles, ai, timeVars, usave,
    history>>
userFrame == <<storeVars, walk, query, summaryVars, cycles, ai, timeVars,
    webVars>>
cycleFrame == <<storeVars, walk, query, summaryVars, ai, timeVars, usave,
    webVars>>
aiFrame == <<storeVars, walk, query, summaryVars, cycles, timeVars, usave,
    webVars>>
vars == <<probe, tweets, txOpen, txOwner, txSnapshot, calls, clock, faults, walk,
          appVars>>

CallIds == 1..MaxCalls

\* status of one input post inside its call
\*   wait    : its batch has not begun
\*   check   : checkStmt.get queued        insert/update : that statement queued
\*   new, updated, skipped, error : classified (resolveTweet called)
Classified == {"new", "updated", "skipped", "error"}

ZeroStats == [new |-> 0, updated |-> 0, skipped |-> 0, error |-> 0]

IdleCall ==
    [pc      |-> "idle",
     tweets  |-> <<>>,
     now     |-> 0,
     stats   |-> ZeroStats,
     first   |-> 1,
     item    |-> <<>>,
     failure |-> "none",
     \* the table when the call was made, and when BEGIN of the current
     \* batch was issued; kept to state the properties
     before  |-> [i \in Ids |-> NoRow],
     batchStart |-> [i \in Ids |-> NoRow]]

Settled(c) == calls[c].pc \in {"resolved", "rejected"}
InFlight(c) == calls[c].pc \in {"begin", "items", "commit", "rollback"}

\* a plausible slip: slice(i, i + BATCH_SIZE + 1)
LastOfOneMore(first, n) == IF first + BATCH_SIZE < n THEN first + BATCH_SIZE ELSE n

\* batches.push(tweets.slice(i, i + BATCH_SIZE)): last index of the batch
\* that starts at index first
LastOf(first, n) == IF first + BATCH_SIZE - 1 < n THEN first + BATCH_SIZE - 1 ELSE n
BatchOf(c) == calls[c].first .. LastOf(calls[c].first, Len(calls[c].tweets))

\* rows a store opened on an existing database file may hold
StoredRows(i) ==
    {InsertedRow(MkTweet(i, "old", probe, v), 0) : v \in 0..MaxCount}

\* posts the upstream API may deliver
Tweets == {MkTweet(i, "new", probe, v) : i \in Ids, v \in 0..MaxCount}

Batches == UNION {[1..n -> Tweets] : n \in 0..MaxTweets}

\* the counters in which the posts of a behaviour may differ: the one the
\* comparison looks at first after retweet_count, and the last one
Probes == {"like_count", "view_count"}

InitStore ==
    /\ probe \in Probes
    /\ tweets \in [Ids -> {NoRow} \cup UNION {StoredRows(i) : i \in Ids}]
    /\ \A i \in Ids : tweets[i] # NoRow => tweets[i].id = i
    /\ txOpen = FALSE
    /\ txOwner = 0
    /\ txSnapshot = tweets
    /\ calls = [c \in CallIds |-> IdleCall]
    /\ clock = 0
    /\ faults = 0

----------------------------------------------------------------------------
(* getTweetsInTimeRange: SELECT ... FROM tweets, then a filter in          *)
(* JavaScript on the parsed created_at                                     *)

\* largest instant, in ms, that a Date of the model denotes
MaxMs == 4

QueryIds == Ids \cup {"p3"}

\* a JavaScript Date: getTime() is ms, or NaN when the Date is invalid
InvalidDate == [valid |-> FALSE, ms |-> 0]
Date(ms) == [valid |-> TRUE, ms |-> ms]
Dates == {InvalidDate} \cup {Date(ms) : ms \in 0..MaxMs}

\* what column created_at may hold: three well-formed platform timestamps,
\* a string that is no date, and NULL (the post carried no created_at)
NullTimestamp == "NULL"
Timestamps == {"T1", "T2", "T3", "not a date", NullTimestamp}

\* new Date(row.created_at): new Date(null) is the epoch, an unparseable
\* string gives an invalid Date
DateParse(s) ==
    CASE s = "T1" -> Date(1)
      [] s = "T2" -> Date(2)
      [] s = "T3" -> Date(3)
      [] s = NullTimestamp -> Date(0)
      [] OTHER -> InvalidDate

\* a >= b on getTime() values: false as soon as one of them is NaN
Geq(a, b) == a.valid /\ b.valid /\ a.ms >= b.ms
Leq(a, b) == a.valid /\ b.valid /\ a.ms <= b.ms
Lt(a, b)  == a.valid /\ b.valid /\ a.ms < b.ms

\* a plausible slip: the upper bound is exclusive
isInRangeExclusiveEnd(row, startTime, endTime) ==
    LET tweetDate == DateParse(row.created_at)
    IN  /\ Geq(tweetDate, startTime) /\ Lt(tweetDate, endTime)
        /\ tweetDate.valid

\* the filter callback: tweetMs >= startMs && tweetMs <= endMs; for the
\* first five rows tweetDate.toISOString() is logged, which throws on an
\* invalid Date, and the catch returns false
isInRange(row, startTime, endTime) ==
    LET tweetDate == DateParse(row.created_at)
    IN  /\ Geq(tweetDate, startTime) /\ Leq(tweetDate, endTime)
        /\ tweetDate.valid

IdleQuery ==
    [pc        |-> "idle",
     startTime |-> InvalidDate,
     endTime   |-> InvalidDate,
     rows      |-> {},
     \* the table when the query ran; kept to state the properties
     before    |-> <<>>]

\* rows a query may find in the table
QueryRows(i) ==
    {[InsertedRow(MkTweet(i, "old", "like_count", 0), 0)
         EXCEPT !.created_at = d] : d \in Timestamps}

\* db.all succeeds: the rows in range are resolved (as a set: the ORDER BY
\* of the SELECT is not modelled)
getTweetsInTimeRange(startTime, endTime) ==
    /\ query.pc = "idle"
    /\ query' = [pc        |-> "resolved",
                 startTime |-> startTime,
                 endTime   |-> endTime,
                 rows      |-> {tweets[i] : i \in
                                  {j \in DOMAIN tweets :
                                     /\ tweets[j] # NoRow
                                     /\ isInRange(tweets[j], startTime, endTime)}},
                 before    |-> tweets]
    /\ UNCHANGED queryFrame

\* db.all fails: the promise is rejected with the error
QueryFails(startTime, endTime) ==
    /\ query.pc = "idle"
    /\ query' = [IdleQuery EXCEPT !.pc = "rejected",
                                  !.startTime = startTime,
                                  !.endTime = endTime,
                                  !.before = tweets]
    /\ UNCHANGED queryFrame


----------------------------------------------------------------------------
(* DatabaseManager.saveUser: one action per SQL statement, together with   *)
(* the callback that handles its result.  Of the ten fields saveUser       *)
(* writes, one text field, one counter and one flag are followed; the      *)
(* others are written by the same expressions                              *)

\* saveUser calls in one behaviour
MaxUserCalls == 2

UserCallIds == 1..MaxUserCalls
AccountIds == {"u1", "u2"}
NoUser == [id |-> "none"]

\* a field the incoming object does not have
Undefined == "undefined"
UndefinedNumber == -1

\* the objects saveUser is called with
Accounts ==
    [id : AccountIds,
     screen_name : {Undefined, "alice"},
     followers_count : {UndefinedNumber, 7},
     is_tracked : {UndefinedNumber, 1}]

\* user.screen_name || ''
OrEmpty(v) == IF v \in {Undefined, ""} THEN "" ELSE v

\* user.followers_count || 0
OrZero(v) == IF v \in {UndefinedNumber, 0} THEN 0 ELSE v

\* the values both statements bind; t is  new Date().toISOString()  of the
\* call
BoundRow(user, t) ==
    [id              |-> user.id,
     screen_name     |-> OrEmpty(user.screen_name),
     followers_count |-> OrZero(user.followers_count),
     is_tracked      |-> OrZero(user.is_tracked),
     last_updated    |-> t]

\* a row table users may hold when the process starts
StoredUser(i) ==
    [id |-> i, screen_name |-> "bob", followers_count |-> 3,
     is_tracked |-> 1, last_updated |-> 0]

\* pc of a call: idle, check (SELECT queued), insert, update (statement
\* queued), resolved, rejected
IdleUserCall ==
    [pc |-> "idle", user |-> CHOOSE a \in Accounts : TRUE, now |-> 0,
     result |-> "none"]

\* every prepared statement runs its calls in the order they were made
IdleUserSave(table) ==
    [users    |-> table,
     calls    |-> [c \in UserCallIds |-> IdleUserCall],
     checkQ   |-> <<>>,
     insertQ  |-> <<>>,
     updateQ  |-> <<>>]

\* saveUser(user) is called: the time is read and checkStmt.get is queued.
\* saveUserBatch makes the calls of a batch one after the other without
\* waiting (batch.map inside Promise.all)
saveUser(c, user) ==
    /\ usave.calls[c].pc = "idle"
    /\ \A h \in UserCallIds : h < c => usave.calls[h].pc # "idle"
    /\ usave' = [usave EXCEPT
                   !.calls[c] = [IdleUserCall EXCEPT !.pc = "check",
                                                     !.user = user,
                                                     !.now = c],
                   !.checkQ = Append(@, c)]
    /\ UNCHANGED userFrame

\* SELECT id FROM users WHERE id = ?  runs, and its callback queues the
\* UPDATE when a row came back and the INSERT when none did
CheckUser(c) ==
    /\ usave.checkQ # <<>>
    /\ c = Head(usave.checkQ)
    /\ LET row == usave.users[usave.calls[c].user.id]
       IN  usave' = [usave EXCEPT
                       !.checkQ = Tail(@),
                       !.calls[c].pc = IF row # NoUser THEN "update" ELSE "insert",
                       !.updateQ = IF row # NoUser THEN Append(@, c) ELSE @,
                       !.insertQ = IF row # NoUser THEN @ ELSE Append(@, c)]
    /\ UNCHANGED userFrame

\* UPDATE users SET ... WHERE id = ?  runs; resolve({ updated: true })
UpdateUser(c) ==
    /\ usave.updateQ # <<>>
    /\ c = Head(usave.updateQ)
    /\ LET user == usave.calls[c].user
       IN  usave' = [usave EXCEPT
                       !.updateQ = Tail(@),
                       !.users[user.id] =
                           IF @ = NoUser THEN @
                           ELSE BoundRow(user, usave.calls[c].now),
                       !.calls[c].pc = "resolved",
                       !.calls[c].result = "updated"]
    /\ UNCHANGED userFrame

\* INSERT INTO users runs on a table without the id;
\* resolve({ inserted: true })
InsertUser(c) ==
    /\ usave.insertQ # <<>>
    /\ c = Head(usave.insertQ)
    /\ usave.users[usave.calls[c].user.id] = NoUser
    /\ LET user == usave.calls[c].user
       IN  usave' = [usave EXCEPT
                       !.insertQ = Tail(@),
                       !.users[user.id] = BoundRow(user, usave.calls[c].now),
                       !.calls[c].pc = "resolved",
                       !.calls[c].result = "inserted"]
    /\ UNCHANGED userFrame

\* INSERT INTO users runs on a table that holds the id: id TEXT PRIMARY KEY
\* refuses the row; reject(err)
InsertUserConflict(c) ==
    /\ usave.insertQ # <<>>
    /\ c = Head(usave.insertQ)
    /\ usave.users[usave.calls[c].user.id] # NoUser
    /\ usave' = [usave EXCEPT !.insertQ = Tail(@),
                              !.calls[c].pc = "rejected"]
    /\ UNCHANGED userFrame

NextAccounts ==
    \/ \E c \in UserCallIds, user \in Accounts : saveUser(c, user)
    \/ \E c \in UserCallIds : CheckUser(c)
    \/ \E c \in UserCallIds : UpdateUser(c)
    \/ \E c \in UserCallIds : InsertUser(c)
    \/ \E c \in UserCallIds : InsertUserConflict(c)

----------------------------------------------------------------------------
(* TimeUtil: the window a summary covers.  A Date is the number of seconds *)
(* since local midnight of day 0; the milliseconds, which setMinutes(0, 0, *)
(* 0) clears and getSeconds() does not see, are left out                   *)

SecondsPerHour == 3600
SecondsPerDay == 24 * SecondsPerHour

getSeconds(t) == t % 60
getMinutes(t) == (t \div 60) % 60
getHours(t) == (t \div SecondsPerHour) % 24

\* date.setMinutes(0, 0, 0)
setMinutesZero(t) == t - (t % SecondsPerHour)

\* date.setHours(date.getHours() + h)
addHours(t, h) == t + h * SecondsPerHour

AllPeriods == {"1hour", "12hours", "1day"}

\* TimeUtil.getTimeDeltaForPeriod, in seconds
getTimeDeltaForPeriod(period) ==
    CASE period = "1hour"   -> SecondsPerHour
      [] period = "12hours" -> 12 * SecondsPerHour
      [] period = "1day"    -> 24 * SecondsPerHour
      [] OTHER              -> SecondsPerHour

\* a plausible slip: the window ends one hour too early
calculateTimeRangeStale(period, t) ==
    LET lastHour == addHours(setMinutesZero(t), -1)
    IN  [start |-> lastHour - getTimeDeltaForPeriod(period), end |-> lastHour]

\* a plausible slip: on the hour, the hour that starts is taken as ended
calculateTimeRangeNoStepBack(period, t) ==
    LET lastHour == setMinutesZero(t)
    IN  [start |-> lastHour - getTimeDeltaForPeriod(period), end |-> lastHour]

\* TimeUtil.calculateTimeRange(period), called at time t
calculateTimeRange(period, t) ==
    LET zeroed   == setMinutesZero(t)
        lastHour == IF getMinutes(t) = 0 /\ getSeconds(t) = 0
                    THEN addHours(zeroed, -1)
                    ELSE zeroed
    IN  CASE period = "1hour" ->
               [start |-> addHours(lastHour, -1), end |-> lastHour]
          [] period = "12hours" ->
               [start |-> addHours(lastHour, -12), end |-> lastHour]
          [] period = "1day" ->
               [start |-> addHours(lastHour, -24), end |-> lastHour]
          [] OTHER ->
               [start |-> lastHour - getTimeDeltaForPeriod(period),
                end   |-> lastHour]

\* the hour of day 1 at which the modelled behaviours are observed
Hour0 == SecondsPerDay + 11 * SecondsPerHour

\* instants at which calculateTimeRange is called directly
MaxHours == 3
Minutes == {0, 1, 10, 59}
Seconds == {0, 1, 59}
Instants ==
    {Hour0 + h * SecondsPerHour + m * 60 + sec :
        h \in 0..(MaxHours - 1), m \in Minutes, sec \in Seconds}

\* a caller reads the clock and computes the window of a period
CalculateTimeRange(period) ==
    /\ Len(timeRange) < 2
    /\ timeRange' = Append(timeRange,
                           [period |-> period, at |-> now,
                            range |-> calculateTimeRange(period, now)])
    /\ UNCHANGED <<now, timeFrame>>

\* one hour passes between two runs of a scheduled job
HourPasses ==
    /\ Len(timeRange) = 1
    /\ now = timeRange[1].at
    /\ now' = addHours(now, 1)
    /\ UNCHANGED <<timeRange, timeFrame>>

NextTime ==
    \/ \E period \in AllPeriods \cup {"1week"} : CalculateTimeRange(period)
    \/ HourPasses

----------------------------------------------------------------------------
(* RequestThrottler and TwitterSummarizer.generateAndSaveSummary, one      *)
(* action per await                                                        *)

\* number of generateAndSaveSummary calls in one behaviour
MaxGens == 3
\* number of store operations of the summary path that may fail
MaxSummaryFaults == 2

\* this.throttler = new RequestThrottler(1)
maxConcurrent == 1

GenIds == 1..MaxGens
Periods == {"1hour", "12hours"}

IdleThrottler == [currentRequests |-> 0, requestQueue |-> <<>>]

\* pc of a call: idle, waiting (its resolver is in requestQueue), query,
\* generate, save, saveEmpty, catch, finally, returned, rejected
IdleGen ==
    [pc       |-> "idle",
     period   |-> "1hour",
     queryStart |-> 0,      \* timeRange.start and timeRange.end of the
     queryEnd |-> 0,        \* try block
     tweets   |-> 0,        \* tweets.length of the query
     result   |-> "none",   \* what the call returned: "row" or "null"
     \* what the call has done, kept to state the properties
     waited   |-> FALSE,    \* acquireRequest did not resolve at once
     escaped  |-> "none",   \* the step whose error reached the catch
     rowId    |-> 0,        \* id of the row the call inserted (0: none)
     rows     |-> 0,        \* number of rows the call inserted
     rangeAt  |-> 0,        \* when the window of its row was computed
     released |-> 0,        \* times its finally block ran releaseRequest
     \* generateSummary, until its result is saved: its own window, the
     \* number of posts the AI answer was computed over, what it returned
     aiStart  |-> 0,
     aiEnd    |-> 0,
     aiTweets |-> 0,
     aiOutcome |-> "none",
     errorSaveFailed |-> FALSE]

\* calls inside the body of generateAndSaveSummary: between a resolved
\* acquireRequest and releaseRequest
InBody(g) ==
    gens[g].pc \in {"query", "generate", "save", "saveEmpty", "catch", "finally"}

\* id INTEGER PRIMARY KEY AUTOINCREMENT: larger than every id of the table
NextId(table) ==
    1 + (CHOOSE m \in {0} \cup {r.id : r \in table} :
           \A r \in table : r.id <= m)

\* startTime.toISOString() and new Date().toISOString(): every Date of the
\* summary path is valid, and on valid dates the text orders as the
\* instants do; the instant stands for its text
SummaryRow(id, period, startTime, endTime, tweetCount, status, t) ==
    [id |-> id, period |-> period,
     start_time |-> startTime, end_time |-> endTime,
     tweet_count |-> tweetCount, created_at |-> t, status |-> status]

\* a plausible slip: one row per period, INSERT OR REPLACE
saveSummaryReplace(table, period, startTime, endTime, tweetCount, status, t) ==
    {r \in table : r.period # period}
        \cup {SummaryRow(NextId(table), period, startTime, endTime,
                         tweetCount, status, t)}

\* db.saveSummary, called at time t: INSERT INTO summaries
saveSummary(table, period, startTime, endTime, tweetCount, status, t) ==
    table \cup {SummaryRow(NextId(table), period, startTime, endTime,
                           tweetCount, status, t)}

\* a plausible slip: a full throttler still admits the caller
acquireRequestOffByOne(t, g) ==
    IF t.currentRequests <= maxConcurrent
    THEN [t EXCEPT !.currentRequests = @ + 1]
    ELSE [t EXCEPT !.requestQueue = Append(@, g)]

\* acquireRequest(): the slot is taken, or the resolver is queued
acquireRequest(t, g) ==
    IF t.currentRequests < maxConcurrent
    THEN [t EXCEPT !.currentRequests = @ + 1]
    ELSE [t EXCEPT !.requestQueue = Append(@, g)]

\* a plausible slip: the slot is given back also when it is handed over
releaseRequestAlwaysDecrement(t) ==
    IF Len(t.requestQueue) > 0
    THEN [t EXCEPT !.requestQueue = Tail(@), !.currentRequests = @ - 1]
    ELSE [t EXCEPT !.currentRequests = @ - 1]

\* releaseRequest(): the slot goes to the first waiter, or is given back
releaseRequest(t) ==
    IF Len(t.requestQueue) > 0
    THEN [t EXCEPT !.requestQueue = Tail(@)]
    ELSE [t EXCEPT !.currentRequests = @ - 1]

\* the try block is entered at time t: const timeRange =
\* TimeUtil.calculateTimeRange(period), and the query is sent
EnterTry(gen, t) ==
    LET timeRange0 == calculateTimeRange(gen.period, t)
    IN  [gen EXCEPT !.pc = "query",
                    !.queryStart = timeRange0.start,
                    !.queryEnd = timeRange0.end,
                    !.rangeAt = t]

\* the call g of generateAndSaveSummary(period) at time t, up to its first
\* await that does not resolve at once
Called(t0, g, period, t) ==
    LET admitted == acquireRequest(t0, g).currentRequests # t0.currentRequests
        gen == [IdleGen EXCEPT !.period = period, !.waited = ~admitted]
    IN  IF admitted THEN EnterTry(gen, t) ELSE [gen EXCEPT !.pc = "waiting"]

\* generateAndSaveSummary(period) is called: by scheduleJobs at startup,
\* by a scheduled job, or by a route of the web server; the callers differ
\* only in what they do with the returned value
generateAndSaveSummary(g, period) ==
    /\ gens[g].pc = "idle"
    /\ \A h \in GenIds : h < g => gens[h].pc # "idle"
    /\ throttler' = acquireRequest(throttler, g)
    /\ gens' = [gens EXCEPT ![g] = Called(throttler, g, period, now)]
    /\ UNCHANGED <<summaryFrame, summaries, sfaults>>

\* await this.db.getTweetsInTimeRange(queryStart, queryEnd) resolves with
\* n tweets
QueryResolves(g, n) ==
    /\ gens[g].pc = "query"
    /\ gens' = [gens EXCEPT ![g].tweets = n,
                            ![g].pc = IF n = 0 THEN "saveEmpty" ELSE "generate"]
    /\ UNCHANGED <<summaryFrame, throttler, summaries, sfaults>>

\* the query rejects (or this.db is null): the catch block is entered
QueryRejects(g) ==
    /\ gens[g].pc = "query"
    /\ sfaults < MaxSummaryFaults
    /\ sfaults' = sfaults + 1
    /\ gens' = [gens EXCEPT ![g].pc = "catch", ![g].escaped = "query"]
    /\ UNCHANGED <<summaryFrame, throttler, summaries>>

\* a plausible slip: the early return is placed before the try block
AfterReturnNullSkipsFinally == "returned"

\* return null inside the try block: the finally block runs before the
\* call returns
AfterReturnNull == "finally"

\* await this._saveEmptySummary(...); return null
SaveEmpty(g) ==
    /\ gens[g].pc = "saveEmpty"
    /\ summaries' = saveSummary(summaries, gens[g].period, gens[g].queryStart,
                                gens[g].queryEnd, 0, "empty", now)
    /\ gens' = [gens EXCEPT ![g].pc = AfterReturnNull,
                            ![g].result = "null",
                            ![g].rowId = NextId(summaries),
                            ![g].rows = @ + 1]
    /\ UNCHANGED <<summaryFrame, throttler, sfaults>>

SaveEmptyRejects(g) ==
    /\ gens[g].pc = "saveEmpty"
    /\ sfaults < MaxSummaryFaults
    /\ sfaults' = sfaults + 1
    /\ gens' = [gens EXCEPT ![g].pc = "catch", ![g].escaped = "save"]
    /\ UNCHANGED <<summaryFrame, throttler, summaries>>

\* what generateSummary may return for the m posts of its own query: the
\* no-data HTML for none, the content of the AI answer, or the error HTML
\* when its query or _callAIWithRetry threw
GenerateOutcomes(m) ==
    IF m = 0 THEN {"no data", "error"} ELSE {"content", "error"}

\* numbers of posts the query of generateSummary may find
SecondCounts == 0..2

\* const summary = await this.generateSummary(period): generateSummary
\* computes the window again, queries again, calls the AI on what that
\* query returned, catches every error of its own and returns HTML in each
\* case
GenerateReturns(g, m, outcome) ==
    /\ gens[g].pc = "generate"
    /\ outcome \in GenerateOutcomes(m)
    /\ gens' = [gens EXCEPT
                  ![g].pc = "save",
                  ![g].aiStart = calculateTimeRange(gens[g].period, now).start,
                  ![g].aiEnd = calculateTimeRange(gens[g].period, now).end,
                  ![g].aiTweets = IF outcome = "content" THEN m ELSE 0,
                  ![g].aiOutcome = outcome]
    /\ UNCHANGED <<summaryFrame, throttler, summaries, sfaults>>

\* the result of generateSummary is a local of the call: it is gone once
\* the save has been attempted
DropSummary(gen) ==
    [gen EXCEPT !.aiStart = 0, !.aiEnd = 0, !.aiTweets = 0, !.aiOutcome = "none"]

\* await this.db.saveSummary(..., 'success'); return result
SaveSuccess(g) ==
    /\ gens[g].pc = "save"
    /\ summaries' = saveSummary(summaries, gens[g].period, gens[g].queryStart,
                                gens[g].queryEnd, gens[g].tweets, "success",
                                now)
    /\ gens' = [gens EXCEPT ![g] =
                  [DropSummary(@) EXCEPT !.pc = "finally",
                                         !.result = "row",
                                         !.rowId = NextId(summaries),
                                         !.rows = @ + 1]]
    /\ UNCHANGED <<summaryFrame, throttler, sfaults>>

SaveSuccessRejects(g) ==
    /\ gens[g].pc = "save"
    /\ sfaults < MaxSummaryFaults
    /\ sfaults' = sfaults + 1
    /\ gens' = [gens EXCEPT ![g] =
                  [DropSummary(@) EXCEPT !.pc = "catch", !.escaped = "save"]]
    /\ UNCHANGED <<summaryFrame, throttler, summaries>>

\* a plausible slip: _saveErrorSummary without its try/catch
AfterErrorSaveFailsUncaught == "rejected"

\* _saveErrorSummary catches the failure of its own save and logs it
AfterErrorSaveFails == "finally"

\* catch (error): await this._saveErrorSummary(period, error); return null.
\* _saveErrorSummary computes the window again
SaveError(g) ==
    /\ gens[g].pc = "catch"
    /\ summaries' = saveSummary(summaries, gens[g].period,
                                calculateTimeRange(gens[g].period, now).start,
                                calculateTimeRange(gens[g].period, now).end,
                                0, "error", now)
    /\ gens' = [gens EXCEPT ![g].pc = "finally",
                            ![g].result = "null",
                            ![g].rowId = NextId(summaries),
                            ![g].rows = @ + 1,
                            ![g].rangeAt = now]
    /\ UNCHANGED <<summaryFrame, throttler, sfaults>>

SaveErrorFails(g) ==
    /\ gens[g].pc = "catch"
    /\ sfaults < MaxSummaryFaults
    /\ sfaults' = sfaults + 1
    /\ gens' = [gens EXCEPT ![g].pc = AfterErrorSaveFails,
                            ![g].result = "null",
                            ![g].errorSaveFailed = TRUE]
    /\ UNCHANGED <<summaryFrame, throttler, summaries>>

\* finally: this.throttler.releaseRequest(); the call returns.  A waiter
\* that receives the slot resumes after its await
Release(g) ==
    /\ gens[g].pc = "finally"
    /\ throttler' = releaseRequest(throttler)
    /\ gens' = [h \in GenIds |->
                  IF h = g THEN [gens[g] EXCEPT !.pc = "returned",
                                                !.released = @ + 1]
                  ELSE IF Len(throttler.requestQueue) > 0
                          /\ h = Head(throttler.requestQueue)
                       THEN EnterTry(gens[h], now)
                       ELSE gens[h]]
    /\ UNCHANGED <<summaryFrame, summaries, sfaults>>

StepSummary ==
    \E g \in GenIds :
        \/ \E n \in 0..1 : QueryResolves(g, n)
        \/ QueryRejects(g)
        \/ SaveEmpty(g)
        \/ SaveEmptyRejects(g)
        \/ \E m \in SecondCounts, outcome \in {"content", "no data", "error"} :
              GenerateReturns(g, m, outcome)
        \/ SaveSuccess(g)
        \/ SaveSuccessRejects(g)
        \/ SaveError(g)
        \/ SaveErrorFails(g)
        \/ Release(g)

NextSummary ==
    \/ \E g \in GenIds, period \in Periods : generateAndSaveSummary(g, period)
    \/ StepSummary

\* rows table summaries may hold when the process starts
StoredRow ==
    SummaryRow(4, "1hour", Hour0 - 2 * SecondsPerHour, Hour0 - SecondsPerHour,
               2, "success", Hour0 - SecondsPerHour + 600)

StoredSummaries == {{}, {StoredRow}}

IdleSummary ==
    /\ throttler = IdleThrottler
    /\ gens = [g \in GenIds |-> IdleGen]
    /\ summaries = {}
    /\ sfaults = 0

----------------------------------------------------------------------------
(* scheduleJobs, the three cron jobs and the route                         *)
(* POST /api/summary/:period/generate: who calls generateAndSaveSummary,   *)
(* and when.  The model follows the periods of Periods                     *)

\* the instants of day 1 the clock of a behaviour passes through: 11:05,
\* when the process starts, then 11:10 and 12:10
ScheduleInstants ==
    <<Hour0 + 300, Hour0 + 600, Hour0 + SecondsPerHour + 600>>

\* started: the constructor has run scheduleJobs; trigger: what called
\* each generateAndSaveSummary; named: the summary id its request carried;
\* fired: the firings of the cron jobs
IdleSched ==
    [started |-> FALSE,
     trigger |-> [g \in GenIds |-> "none"],
     named   |-> [g \in GenIds |-> 0],
     fired   |-> {}]

\* what a request may carry besides the period: no summary id (0), or the
\* id of a stored summary
RequestIds == {0, 4}

\* '10 * * * *', and '10 0,12 * * *'
CronMatches(period, t) ==
    /\ getSeconds(t) = 0
    /\ getMinutes(t) = 10
    /\ period = "12hours" => getHours(t) \in {0, 12}

\* the jobs due at time t
Due(t) == {<<period, t>> : period \in {q \in Periods : CronMatches(q, t)}}

FreeGen(g) ==
    /\ gens[g].pc = "idle"
    /\ \A h \in GenIds : h < g => gens[h].pc # "idle"

\* scheduleJobs(): a generation of every period is requested at once, then
\* the cron jobs are registered
scheduleJobs ==
    /\ ~sched.started
    /\ throttler' = acquireRequest(acquireRequest(throttler, 1), 2)
    /\ gens' = [gens EXCEPT
                  ![1] = Called(throttler, 1, "1hour", now),
                  ![2] = Called(acquireRequest(throttler, 1), 2, "12hours", now)]
    /\ sched' = [sched EXCEPT !.started = TRUE,
                              !.trigger[1] = "startup",
                              !.trigger[2] = "startup"]
    /\ UNCHANGED <<scheduleFrame, summaries, sfaults, now>>

\* a cron job fires: await this.generateAndSaveSummary(period)
CronFires(g, period) ==
    /\ sched.started
    /\ CronMatches(period, now)
    /\ <<period, now>> \notin sched.fired
    /\ FreeGen(g)
    /\ throttler' = acquireRequest(throttler, g)
    /\ gens' = [gens EXCEPT ![g] = Called(throttler, g, period, now)]
    /\ sched' = [sched EXCEPT !.trigger[g] = "cron",
                              !.fired = @ \cup {<<period, now>>}]
    /\ UNCHANGED <<scheduleFrame, summaries, sfaults, now>>

\* POST /api/summary/:period/generate with a valid period, the request
\* carrying summary id `id`: the handler reads req.params.period and
\* nothing else of the request
PostGenerate(g, period, id) ==
    /\ sched.started
    /\ FreeGen(g)
    /\ throttler' = acquireRequest(throttler, g)
    /\ gens' = [gens EXCEPT ![g] = Called(throttler, g, period, now)]
    /\ sched' = [sched EXCEPT !.trigger[g] = "web", !.named[g] = id]
    /\ UNCHANGED <<scheduleFrame, summaries, sfaults, now>>

\* the clock reaches the next instant; the jobs due now have fired, unless
\* the behaviour has used up its calls
ClockAdvances ==
    /\ sched.started
    /\ \/ Due(now) \subseteq sched.fired
       \/ \A g \in GenIds : gens[g].pc # "idle"
    /\ \E i \in 1..(Len(ScheduleInstants) - 1) :
          /\ now = ScheduleInstants[i]
          /\ now' = ScheduleInstants[i + 1]
    /\ UNCHANGED <<timeFrame, timeRange>>

NextSchedule ==
    \/ scheduleJobs
    \/ \E g \in GenIds, period \in Periods : CronFires(g, period)
    \/ \E g \in GenIds, period \in Periods, id \in RequestIds :
          PostGenerate(g, period, id)
    \/ ClockAdvances
    \/ StepSummary

\* no generation is requested, and no window is being computed
IdleTime ==
    /\ now = Hour0 + 600
    /\ sched = IdleSched
    /\ timeRange = <<>>

----------------------------------------------------------------------------
(* GET /api/summary/:period/history and DatabaseManager.getSummaryHistory  *)

\* history requests in one behaviour, and the largest limit and page asked
MaxHistoryRequests == 2
MaxLimit == 2
MaxPage == 3

\* rows table summaries may hold: four hourly summaries and a 12-hour one,
\* created at different times
HistoryPool ==
    {SummaryRow(i, "1hour", addHours(Hour0, i - 6), addHours(Hour0, i - 5), i,
                "success", addHours(Hour0, i - 5) + 600) : i \in 1..4}
        \cup {SummaryRow(5, "12hours", addHours(Hour0, -13), addHours(Hour0, -1),
                         9, "success", addHours(Hour0, -1) + 600)}

\* ORDER BY created_at DESC, on rows whose created_at differ
RECURSIVE OrderByCreatedAtDesc(_)
OrderByCreatedAtDesc(rows) ==
    IF rows = {} THEN <<>>
    ELSE LET newest == CHOOSE r \in rows :
                           \A q \in rows : q.created_at <= r.created_at
         IN  <<newest>> \o OrderByCreatedAtDesc(rows \ {newest})

\* LIMIT ?
Limit(rows, limit) ==
    SubSeq(rows, 1, IF limit < Len(rows) THEN limit ELSE Len(rows))

\* db.getSummaryHistory(period, limit): SELECT ... WHERE period = ?
\* ORDER BY created_at DESC LIMIT ?, bound to [period, limit]
getSummaryHistory(table, period, limit) ==
    Limit(OrderByCreatedAtDesc({r \in table : r.period = period}), limit)

\* GET /api/summary/:period/history?limit=..&page=..: offset is computed
\* and passed as a third argument, which getSummaryHistory does not have
GetHistory(period, limit, page) ==
    /\ Len(history) < MaxHistoryRequests
    /\ LET offset == (page - 1) * limit
       IN  history' = Append(history,
                             [period |-> period, limit |-> limit, page |-> page,
                              offset |-> offset,
                              rows |-> getSummaryHistory(summaries, period, limit)])
    /\ UNCHANGED historyFrame

NextHistory ==
    \E period \in Periods, limit \in 1..MaxLimit, page \in 1..MaxPage :
        GetHistory(period, limit, page)

----------------------------------------------------------------------------
(* getLatestSummary and GET /api/summary/:period                           *)

\* rows table summaries may hold: hourly rows of each status, two of them
\* created in the same millisecond, and a 12-hour summary newer than all
LatestPool ==
    {SummaryRow(1, "1hour", addHours(Hour0, -5), addHours(Hour0, -4), 3,
                "success", addHours(Hour0, -4) + 600),
     SummaryRow(2, "1hour", addHours(Hour0, -5), addHours(Hour0, -4), 3,
                "success", addHours(Hour0, -4) + 600),
     SummaryRow(3, "1hour", addHours(Hour0, -4), addHours(Hour0, -3), 0,
                "empty", addHours(Hour0, -3) + 600),
     SummaryRow(4, "1hour", addHours(Hour0, -3), addHours(Hour0, -2), 0,
                "error", addHours(Hour0, -2) + 600),
     SummaryRow(5, "12hours", addHours(Hour0, -13), addHours(Hour0, -1), 9,
                "success", addHours(Hour0, -1) + 600)}

\* resolve(null)
NoSummary == [id |-> 0]

\* a plausible slip: the newest row of the period, whatever its status
LatestRowsAnyStatus(table, period) ==
    {r \in table :
        /\ r.period = period
        /\ \A q \in table : q.period = period => q.created_at <= r.created_at}

\* WHERE period = ? AND status = 'success' ORDER BY created_at DESC LIMIT 1:
\* the rows the statement may return; which one of several rows with the
\* same created_at comes first is not defined
LatestRows(table, period) ==
    {r \in table :
        /\ r.period = period
        /\ r.status = "success"
        /\ \A q \in table :
              q.period = period /\ q.status = "success" =>
                  q.created_at <= r.created_at}

\* getLatestSummary(period) may resolve with row (NoSummary: with null)
getLatestSummary(table, period, row) ==
    IF LatestRows(table, period) = {} THEN row = NoSummary
    ELSE row \in LatestRows(table, period)

\* the request being answered, if any
Pending == history # <<>> /\ history[Len(history)].pc = "generating"

\* GET /api/summary/:period with a valid period and no id: the latest
\* summary is looked up and sent; when there is none,
\* generateAndSaveSummary(period) is called as call g and awaited
GetSummary(g, period, row) ==
    /\ Len(history) < MaxHistoryRequests
    /\ ~Pending
    /\ getLatestSummary(summaries, period, row)
    /\ IF row # NoSummary
       THEN /\ history' = Append(history,
                  [period |-> period, pc |-> "sent", code |-> 200, row |-> row,
                   gen |-> 0, before |-> summaries, after |-> summaries])
            /\ UNCHANGED <<throttler, gens>>
       ELSE /\ gens[g].pc = "idle"
            /\ \A h \in GenIds : h < g => gens[h].pc # "idle"
            /\ throttler' = acquireRequest(throttler, g)
            /\ gens' = [gens EXCEPT ![g] = Called(throttler, g, period, now)]
            /\ history' = Append(history,
                  [period |-> period, pc |-> "generating", code |-> 0,
                   row |-> NoSummary, gen |-> g, before |-> summaries,
                   after |-> summaries])
    /\ UNCHANGED <<storeVars, walk, query, summaries, sfaults, cycles, ai,
                   timeVars, usave, proc>>

\* generateAndSaveSummary has returned: 404 when it returned null,
\* otherwise the latest summary is looked up again and sent, 500 when
\* there is still none
GetSummaryResumes(row) ==
    /\ Pending
    /\ LET req == history[Len(history)]
       IN  /\ gens[req.gen].pc = "returned"
           /\ IF gens[req.gen].result = "null"
              THEN /\ row = NoSummary
                   /\ history' = [history EXCEPT ![Len(history)] =
                         [req EXCEPT !.pc = "sent", !.code = 404,
                                     !.after = summaries]]
              ELSE /\ getLatestSummary(summaries, req.period, row)
                   /\ history' = [history EXCEPT ![Len(history)] =
                         [req EXCEPT !.pc = "sent",
                                     !.code = IF row = NoSummary THEN 500 ELSE 200,
                                     !.row = row,
                                     !.after = summaries]]
    /\ UNCHANGED historyFrame

NextLatest ==
    \/ \E g \in GenIds, period \in Periods, row \in summaries \cup {NoSummary} :
          GetSummary(g, period, row)
    \/ \E row \in summaries \cup {NoSummary} : GetSummaryResumes(row)
    \/ StepSummary

----------------------------------------------------------------------------
(* Startup: main() of the summarizer (index.js) and of the two collectors, *)
(* up to the point where the process serves or has exited.  Steps lists    *)
(* the statements of main and of the constructor in program order          *)

Programs == {"index.js", "spider.js", "part_000"}
\* process.env.<KEY>: not set, set to the empty string, or set
Keys == {"undefined", "", "key"}

\* !geminiKey, !this.apiKey
Falsy(key) == key \in {"undefined", ""}

\* a plausible slip: the summarizer schedules its jobs before it looks at
\* the key
StepsCheckLate(program, mode) ==
    <<"openDb", "schedule", "check", "start", "webServer", "listen",
      "onSigint">>

\* the statements that matter, in the order the program runs them
Steps(program, mode) ==
    CASE program = "index.js" ->
           \* constructor: _initializeAIClient, _initializeDatabase,
           \* scheduleJobs; then summarizer.start(), setupWebServer,
           \* app.listen, process.on('SIGINT')
           <<"check", "openDb", "schedule", "start", "webServer", "listen",
             "onSigint">>
      [] program = "spider.js" ->
           \* constructor: key, DatabaseManager; process.on('SIGINT');
           \* then test(), fetchAndUpdateAllUsersFollowings() or
           \* startPolling()
           IF mode = "poll" THEN <<"check", "openDb", "onSigint", "schedule">>
           ELSE <<"check", "openDb", "onSigint", "runOnce">>
      [] program = "part_000" ->
           \* constructor: DatabaseManager, then the key unless skipApiInit
           IF mode = "--export-followings" THEN <<"openDb", "export">>
           ELSE IF mode = "poll"
                THEN <<"openDb", "check", "schedule", "onSigint">>
                ELSE <<"openDb", "check", "runOnce">>

\* the modes main of each program tells apart
ModesOf(program) ==
    CASE program = "index.js" -> {"poll"}
      [] program = "spider.js" -> {"poll", "--test", "--fetch-followings"}
      [] program = "part_000" ->
           {"poll", "--fetch-followings", "--export-followings"}

\* at: the statements of Steps already run; exitCode -1: still running
NewProcess(program, mode, key) ==
    [program |-> program, mode |-> mode, key |-> key,
     at |-> 0, pc |-> "main",
     checked |-> FALSE, dbOpen |-> FALSE, scheduled |-> FALSE,
     running |-> FALSE, listening |-> FALSE, exported |-> FALSE,
     once |-> FALSE, handler |-> FALSE,
     exitCode |-> -1]

NextStep ==
    IF proc.pc = "main" /\ proc.at < Len(Steps(proc.program, proc.mode))
    THEN Steps(proc.program, proc.mode)[proc.at + 1]
    ELSE "none"

\* the next statement of main has run; after the last one the process
\* serves, or waits for its one-shot run to settle
Advance(p) ==
    [p EXCEPT !.at = @ + 1,
              !.pc = IF p.at + 1 < Len(Steps(p.program, p.mode)) THEN "main"
                     ELSE IF p.once THEN "once" ELSE "serving"]

\* if (!geminiKey) throw ... / if (!this.apiKey) throw ...
CheckCredential ==
    /\ NextStep = "check"
    /\ proc' = IF Falsy(proc.key)
               THEN [proc EXCEPT !.pc = "catch"]
               ELSE Advance([proc EXCEPT !.checked = TRUE])
    /\ UNCHANGED startupFrame

\* new DatabaseManager(false)
OpenDatabase ==
    /\ NextStep = "openDb"
    /\ proc' = Advance([proc EXCEPT !.dbOpen = TRUE])
    /\ UNCHANGED startupFrame

\* _initializeDatabase catches the failure: this.db = null, and goes on
OpenDatabaseFails ==
    /\ NextStep = "openDb"
    /\ proc.program = "index.js"
    /\ proc' = Advance(proc)
    /\ UNCHANGED startupFrame

\* scheduleJobs() / startPolling(): the first run is started and the cron
\* jobs are registered
Schedule ==
    /\ NextStep = "schedule"
    /\ proc' = Advance([proc EXCEPT !.scheduled = TRUE, !.running = TRUE])
    /\ UNCHANGED startupFrame

\* app.listen(PORT)
Listen ==
    /\ NextStep = "listen"
    /\ proc' = Advance([proc EXCEPT !.listening = TRUE])
    /\ UNCHANGED startupFrame

\* poller.test() or the followings update is started; its then/catch
\* handler ends the process
RunOnce ==
    /\ NextStep = "runOnce"
    /\ proc' = Advance([proc EXCEPT !.running = TRUE, !.once = TRUE])
    /\ UNCHANGED startupFrame

\* poller.exportFollowingsToCSV(outputPath) is started
Export ==
    /\ NextStep = "export"
    /\ proc' = Advance([proc EXCEPT !.exported = TRUE, !.once = TRUE])
    /\ UNCHANGED startupFrame

\* the one-shot run settles: process.exit(0) or process.exit(1)
RunEnds(code) ==
    /\ proc.pc = "once"
    /\ proc' = [proc EXCEPT !.pc = "exited", !.exitCode = code]
    /\ UNCHANGED startupFrame

\* catch (error) of main: process.exit(1)
ExitOnError ==
    /\ proc.pc = "catch"
    /\ proc' = [proc EXCEPT !.pc = "exited", !.exitCode = 1]
    /\ UNCHANGED startupFrame

\* await summarizer.start(): _initializeServices returns true
Start ==
    /\ NextStep = "start"
    /\ proc' = Advance(proc)
    /\ UNCHANGED startupFrame

\* const app = setupWebServer(summarizer): the routes are registered
SetupWebServer ==
    /\ NextStep = "webServer"
    /\ proc' = Advance(proc)
    /\ UNCHANGED startupFrame

\* process.on('SIGINT', ...)
OnSigint ==
    /\ NextStep = "onSigint"
    /\ proc' = Advance([proc EXCEPT !.handler = TRUE])
    /\ UNCHANGED startupFrame

\* SIGINT reaches the handler: process.exit(0)
Interrupt ==
    /\ proc.pc \in {"serving", "once"}
    /\ proc.handler
    /\ proc' = [proc EXCEPT !.pc = "exited", !.exitCode = 0]
    /\ UNCHANGED startupFrame

StepStartup ==
    \/ CheckCredential
    \/ OpenDatabase
    \/ OpenDatabaseFails
    \/ Schedule
    \/ Start
    \/ SetupWebServer
    \/ Listen
    \/ OnSigint
    \/ RunOnce
    \/ Export
    \/ ExitOnError

NextStartup ==
    \/ StepStartup
    \/ \E code \in {0, 1} : RunEnds(code)
    \/ Interrupt

\* no history was asked for, and no process is being started
IdleWeb ==
    /\ history = <<>>
    /\ proc = NewProcess("index.js", "poll", "key")


----------------------------------------------------------------------------
(* The collection job: startPolling, pollAllLists / pollList and           *)
(* pollAllUsers / pollUserTweets, one action per unit of work              *)

\* firings of the collection job in one behaviour: the run startPolling
\* starts at once, and the firings of the scheduled job
MaxFirings == 2
\* lists configured, or accounts tracked
MaxUnits == 3
\* SPIDER_CONFIG.MAX_CONCURRENT_REQUESTS (src/spider.js:21) is 10; scaled
\* down so that MaxUnits accounts are cut into more than one batch
MAX_CONCURRENT_REQUESTS == 2

FiringIds == 1..MaxFirings
Kinds == {"lists", "users"}

IdleCycle ==
    [pc        |-> "idle",
     kind      |-> "lists",
     units     |-> 0,                        \* targets.length / dbUsers.length
     loaded    |-> FALSE,                    \* the units are known
     attempts  |-> [u \in 1..MaxUnits |-> 0],\* calls of pollList / pollUserTweets
     processed |-> 0,                        \* listsProcessed / usersProcessed
     errors    |-> 0,
     totalTweets |-> 0]

\* what one unit may do: posts fetched and saved, nothing to fetch, the
\* fetch fails, the save fails
Outcomes == {"saved", "empty", "fetch fails", "save fails"}

\* pollList: result.success; every error is caught and leaves it false
pollListSuccess(outcome) == outcome \in {"saved", "empty"}

\* pollUserTweets: the number of posts fetched; a failed fetch is caught
\* and gives 0, a failed save is only logged later
pollUserTweetsCount(outcome) ==
    IF outcome \in {"saved", "save fails"} THEN 1 ELSE 0

Attempted(cy, u) == [cy EXCEPT !.attempts[u] = @ + 1]

\* the cycle resolves once every unit has been attempted
ResolveWhenDone(cy) ==
    IF \A u \in 1..cy.units : cy.attempts[u] > 0
    THEN [cy EXCEPT !.pc = "resolved"] ELSE cy

\* a plausible slip: a failed list ends the cycle
AfterListAbortOnFailure(cy, outcome) ==
    IF pollListSuccess(outcome)
    THEN ResolveWhenDone([cy EXCEPT !.processed = @ + 1,
                                    !.totalTweets = @ + (IF outcome = "saved" THEN 1 ELSE 0)])
    ELSE [cy EXCEPT !.errors = @ + 1, !.pc = "resolved"]

\* the body of  for (const listId of targets)  after pollList has returned
AfterList(cy, outcome) ==
    IF pollListSuccess(outcome)
    THEN ResolveWhenDone([cy EXCEPT !.processed = @ + 1,
                                    !.totalTweets = @ + (IF outcome = "saved" THEN 1 ELSE 0)])
    ELSE ResolveWhenDone([cy EXCEPT !.errors = @ + 1])

\* the job's callback runs: at startPolling, and at every match of
\* POLL_INTERVAL; nothing looks at the firings still running
pollAllLists(f, n) ==
    /\ cycles[f].pc = "idle"
    /\ \A h \in FiringIds : h < f => cycles[h].pc # "idle" /\ cycles[h].kind = "lists"
    /\ cycles' = [cycles EXCEPT ![f] =
                    [IdleCycle EXCEPT !.kind = "lists",
                                      !.units = n,
                                      !.loaded = TRUE,
                                      !.pc = IF n = 0 THEN "resolved" ELSE "running"]]
    /\ UNCHANGED cycleFrame

\* const result = await this.pollList(listId, ...): the lists are polled
\* one after the other
pollListReturns(f, outcome) ==
    /\ cycles[f].pc = "running"
    /\ cycles[f].kind = "lists"
    /\ LET u == CHOOSE v \in 1..cycles[f].units :
                   /\ cycles[f].attempts[v] = 0
                   /\ \A w \in 1..(v - 1) : cycles[f].attempts[w] > 0
       IN  cycles' = [cycles EXCEPT ![f] = AfterList(Attempted(cycles[f], u), outcome)]
    /\ UNCHANGED cycleFrame

\* pollAllUsers is called; the accounts are read when getAllUsersResolves
pollAllUsers(f) ==
    /\ cycles[f].pc = "idle"
    /\ \A h \in FiringIds : h < f => cycles[h].pc # "idle" /\ cycles[h].kind = "users"
    /\ cycles' = [cycles EXCEPT ![f] = [IdleCycle EXCEPT !.kind = "users",
                                                         !.pc = "reading"]]
    /\ UNCHANGED cycleFrame

\* const dbUsers = await this.dbManager.getAllUsers()
getAllUsersResolves(f, n) ==
    /\ cycles[f].pc = "reading"
    /\ cycles' = [cycles EXCEPT ![f].units = n,
                                ![f].loaded = TRUE,
                                ![f].pc = IF n = 0 THEN "resolved" ELSE "running"]
    /\ UNCHANGED cycleFrame

\* getAllUsers rejects: the outer catch counts one error and returns
getAllUsersRejects(f) ==
    /\ cycles[f].pc = "reading"
    /\ cycles' = [cycles EXCEPT ![f].errors = @ + 1, ![f].pc = "resolved"]
    /\ UNCHANGED cycleFrame

\* the batch of accounts being polled: users.slice(i, i + batchSize) for
\* the first i whose batch is not finished
CurrentBatch(cy) ==
    LET open  == {v \in 1..cy.units : cy.attempts[v] = 0}
        lowest == CHOOSE v \in open : \A w \in open : v <= w
        start == ((lowest - 1) \div MAX_CONCURRENT_REQUESTS) * MAX_CONCURRENT_REQUESTS + 1
    IN  {v \in open : v >= start /\ v < start + MAX_CONCURRENT_REQUESTS}

\* const tweetCount = await this.pollUserTweets(user) for one account of
\* the current batch; the accounts of a batch finish in any order
pollUserTweetsReturns(f, u, outcome) ==
    /\ cycles[f].pc = "running"
    /\ cycles[f].kind = "users"
    /\ u \in CurrentBatch(cycles[f])
    /\ cycles' = [cycles EXCEPT ![f] =
                    ResolveWhenDone(
                      [Attempted(cycles[f], u) EXCEPT
                          !.totalTweets = @ + pollUserTweetsCount(outcome),
                          !.processed = @ + 1])]
    /\ UNCHANGED cycleFrame

NextCycle ==
    \/ \E f \in FiringIds, n \in 0..MaxUnits : pollAllLists(f, n)
    \/ \E f \in FiringIds, outcome \in Outcomes : pollListReturns(f, outcome)
    \/ \E f \in FiringIds : pollAllUsers(f)
    \/ \E f \in FiringIds, n \in 0..MaxUnits : getAllUsersResolves(f, n)
    \/ \E f \in FiringIds : getAllUsersRejects(f)
    \/ \E f \in FiringIds, u \in 1..MaxUnits, outcome \in Outcomes :
          pollUserTweetsReturns(f, u, outcome)

IdleCycles == cycles = [f \in FiringIds |-> IdleCycle]


----------------------------------------------------------------------------
(* TwitterSummarizer._callAIWithRetry, one action per await                *)

\* const maxRetries = 2
maxRetries == 2
\* setTimeout(resolve, 3000 * attempt)
RETRY_DELAY_MS == 3000

\* error messages of a failed attempt, each as the sequence of its parts
ErrorMessages ==
    {<<"read", "ECONNRESET">>,
     <<"socket hang up">>,
     <<"timeout", "of 300000ms exceeded">>,
     <<"connect", "ETIMEDOUT">>,
     <<"Request failed with status code", "400">>,
     <<"Request failed with status code", "500">>,
     <<"Gemini API returned an empty response">>}

\* message.includes(part)
Includes(message, part) == \E k \in 1..Len(message) : message[k] = part

isNetworkError(message) ==
    \/ Includes(message, "ECONNRESET")
    \/ Includes(message, "socket hang up")
    \/ Includes(message, "timeout")

\* a plausible slip: every failure but the last is retried
RethrowOnlyLast(attempt, message) == attempt = maxRetries

\* if (attempt === maxRetries || !isNetworkError) throw retryError
Rethrow(attempt, message) ==
    attempt = maxRetries \/ ~isNetworkError(message)

\* outcome of a request that returned a usable response
Ok == <<"ok">>

IdleAI ==
    [pc       |-> "idle",
     attempt  |-> 0,
     result   |-> "none",     \* the text returned
     error    |-> <<>>,       \* the message of the error thrown
     \* what the call has done, kept to state the properties
     outcomes |-> <<>>,       \* per request: Ok or the error message
     delays   |-> <<>>]       \* the delays waited, in ms

\* _callAIWithRetry(userPrompt): attempt 0 sends its request at once
callAIWithRetry ==
    /\ ai.pc = "idle"
    /\ ai' = [IdleAI EXCEPT !.pc = "request"]
    /\ UNCHANGED aiFrame

\* the request of this attempt returns a usable response: its text is
\* returned
RequestSucceeds ==
    /\ ai.pc = "request"
    /\ ai' = [ai EXCEPT !.pc = "returned",
                        !.result = <<"text of attempt", ai.attempt + 1>>,
                        !.outcomes = Append(@, Ok)]
    /\ UNCHANGED aiFrame

\* the request fails, or its response is unusable and an Error is thrown:
\* the catch rethrows, or lets the loop go on to the next attempt
RequestFails(message) ==
    /\ ai.pc = "request"
    /\ ai' = IF Rethrow(ai.attempt, message)
             THEN [ai EXCEPT !.pc = "thrown",
                             !.error = message,
                             !.outcomes = Append(@, message)]
             ELSE [ai EXCEPT !.pc = "delay",
                             !.attempt = @ + 1,
                             !.outcomes = Append(@, message)]
    /\ UNCHANGED aiFrame

\* if (attempt > 0) await new Promise(resolve => setTimeout(resolve,
\* 3000 * attempt)); then the request is sent
RetryDelay ==
    /\ ai.pc = "delay"
    /\ ai.attempt <= maxRetries
    /\ ai' = [ai EXCEPT !.pc = "request",
                        !.delays = Append(@, RETRY_DELAY_MS * ai.attempt)]
    /\ UNCHANGED aiFrame

NextAI ==
    \/ callAIWithRetry
    \/ RequestSucceeds
    \/ \E message \in ErrorMessages : RequestFails(message)
    \/ RetryDelay

InitApp ==
    /\ query = IdleQuery
    /\ IdleSummary
    /\ IdleCycles
    /\ ai = IdleAI
    /\ IdleTime
    /\ usave = IdleUserSave([i \in AccountIds |-> NoUser])
    /\ IdleWeb

----------------------------------------------------------------------------
(* saveTweetsToDatabase: one action per SQL statement, together with the   *)
(* callback that handles its result                                        *)

\* a plausible slip: a post that needs no write is not counted
CountedWritesOnly(stats, outcome) ==
    IF outcome = "skipped" THEN stats ELSE [stats EXCEPT ![outcome] = @ + 1]

\* stats.new++, stats.updated++, stats.skipped++ or stats.error++
Counted(stats, outcome) == [stats EXCEPT ![outcome] = @ + 1]

\* a plausible slip: an item-level error aborts the batch like a failed COMMIT
ClassifyOrAbort(c, k, outcome) ==
    LET cr    == calls[c]
        item2 == [cr.item EXCEPT ![k] = outcome]
        done  == \A j \in calls[c].first .. Len(cr.item) :
                    j < calls[c].first + BATCH_SIZE => item2[j] \in Classified
    IN  [cr EXCEPT !.item  = item2,
                   !.stats = Counted(cr.stats, outcome),
                   !.pc    = IF outcome = "error" THEN "rollback"
                             ELSE IF done THEN "commit" ELSE "items"]

\* resolveTweet() of input post k with the given outcome; when it was the
\* last one of the batch, Promise.all settles and COMMIT is issued
Classify(c, k, outcome) ==
    LET cr    == calls[c]
        item2 == [cr.item EXCEPT ![k] = outcome]
        done  == \A j \in BatchOf(c) : item2[j] \in Classified
    IN  [cr EXCEPT !.item  = item2,
                   !.stats = Counted(cr.stats, outcome),
                   !.pc    = IF done THEN "commit" ELSE "items"]

\* checkStmt, insertStmt and updateStmt each run their queued calls in the
\* order of the calls; calls on different statements are not ordered
HeadOf(c, k, stmt) ==
    /\ calls[c].pc = "items"
    /\ k \in BatchOf(c)
    /\ calls[c].item[k] = stmt
    /\ \A j \in BatchOf(c) : j < k => calls[c].item[j] # stmt

\* a call with a non-empty input, up to its first BEGIN TRANSACTION
NewCall(tw) ==
    [IdleCall EXCEPT !.pc     = "begin",
                     !.tweets = tw,
                     !.now    = clock + 1,
                     !.item   = [k \in 1..Len(tw) |-> "wait"],
                     !.before = tweets,
                     !.batchStart = tweets]

\* the call itself: empty input returns at once, otherwise the input is cut
\* into batches and BEGIN TRANSACTION of the first batch is issued
saveTweetsToDatabase(c, tw) ==
    /\ calls[c].pc = "idle"
    /\ IF Len(tw) = 0
       THEN /\ calls' = [calls EXCEPT ![c] =
                          [IdleCall EXCEPT !.pc = "resolved", !.before = tweets]]
            /\ UNCHANGED clock
       ELSE /\ clock' = clock + 1
            /\ calls' = [calls EXCEPT ![c] = NewCall(tw)]
    /\ UNCHANGED <<appVars, walk, probe, tweets, txOpen, txOwner, txSnapshot, faults>>

\* BEGIN TRANSACTION succeeds: every post of the batch gets its
\* checkStmt.get queued
RunBegin(c) ==
    /\ calls[c].pc = "begin"
    /\ ~txOpen
    /\ txOpen' = TRUE
    /\ txOwner' = c
    /\ txSnapshot' = tweets
    /\ calls' = [calls EXCEPT ![c] =
                   [@ EXCEPT !.pc      = "items",
                             !.item    = [k \in DOMAIN @ |->
                                            IF k \in BatchOf(c) THEN "check" ELSE @[k]]]]
    /\ UNCHANGED <<appVars, walk, probe, tweets, clock, faults>>

\* BEGIN TRANSACTION fails in the store: rejectBatch(beginErr)
BeginFails(c) ==
    /\ calls[c].pc = "begin"
    /\ ~txOpen
    /\ faults < MaxFaults
    /\ faults' = faults + 1
    /\ calls' = [calls EXCEPT ![c] = [@ EXCEPT !.pc = "rejected", !.failure = "begin"]]
    /\ UNCHANGED <<appVars, walk, probe, tweets, txOpen, txOwner, txSnapshot, clock>>

\* BEGIN TRANSACTION while the connection is already inside a transaction:
\* sqlite answers "cannot start a transaction within a transaction"
BeginInsideTransaction(c) ==
    /\ calls[c].pc = "begin"
    /\ txOpen
    /\ calls' = [calls EXCEPT ![c] = [@ EXCEPT !.pc = "rejected", !.failure = "begin"]]
    /\ UNCHANGED <<appVars, walk, probe, tweets, txOpen, txOwner, txSnapshot, clock, faults>>

\* checkStmt.get(tweet.id, callback) returns the row or nothing
CheckGet(c, k) ==
    /\ HeadOf(c, k, "check")
    /\ LET tweet         == calls[c].tweets[k]
           existingTweet == tweets[tweet.id]
       IN  calls' = [calls EXCEPT ![c] =
                IF existingTweet # NoRow
                THEN IF hasChanged(existingTweet, tweet)
                     THEN [@ EXCEPT !.item[k] = "update"]
                     ELSE Classify(c, k, "skipped")
                ELSE [@ EXCEPT !.item[k] = "insert"]]
    /\ UNCHANGED <<appVars, walk, probe, tweets, txOpen, txOwner, txSnapshot, clock, faults>>

\* checkStmt.get calls back with err
CheckFails(c, k) ==
    /\ HeadOf(c, k, "check")
    /\ faults < MaxFaults
    /\ faults' = faults + 1
    /\ calls' = [calls EXCEPT ![c] = Classify(c, k, "error")]
    /\ UNCHANGED <<appVars, walk, probe, tweets, txOpen, txOwner, txSnapshot, clock>>

\* insertStmt.run succeeds
InsertRun(c, k) ==
    /\ HeadOf(c, k, "insert")
    /\ LET tweet == calls[c].tweets[k]
       IN  /\ tweets[tweet.id] = NoRow
           /\ tweets' = [tweets EXCEPT ![tweet.id] = InsertedRow(tweet, calls[c].now)]
    /\ calls' = [calls EXCEPT ![c] = Classify(c, k, "new")]
    /\ UNCHANGED <<appVars, walk, probe, txOpen, txOwner, txSnapshot, clock, faults>>

\* insertStmt.run on an id that has got a row since the check:
\* SQLITE_CONSTRAINT on the primary key, the statement changes nothing
InsertConflict(c, k) ==
    /\ HeadOf(c, k, "insert")
    /\ tweets[calls[c].tweets[k].id] # NoRow
    /\ calls' = [calls EXCEPT ![c] = Classify(c, k, "error")]
    /\ UNCHANGED <<appVars, walk, probe, tweets, txOpen, txOwner, txSnapshot, clock, faults>>

\* insertStmt.run fails in the store
InsertFails(c, k) ==
    /\ HeadOf(c, k, "insert")
    /\ faults < MaxFaults
    /\ faults' = faults + 1
    /\ calls' = [calls EXCEPT ![c] = Classify(c, k, "error")]
    /\ UNCHANGED <<appVars, walk, probe, tweets, txOpen, txOwner, txSnapshot, clock>>

\* updateStmt.run succeeds
UpdateRun(c, k) ==
    /\ HeadOf(c, k, "update")
    /\ LET tweet == calls[c].tweets[k]
       IN  tweets' = [tweets EXCEPT ![tweet.id] =
                        IF @ = NoRow THEN @ ELSE UpdatedRow(@, tweet, calls[c].now)]
    /\ calls' = [calls EXCEPT ![c] = Classify(c, k, "updated")]
    /\ UNCHANGED <<appVars, walk, probe, txOpen, txOwner, txSnapshot, clock, faults>>

\* updateStmt.run fails in the store
UpdateFails(c, k) ==
    /\ HeadOf(c, k, "update")
    /\ faults < MaxFaults
    /\ faults' = faults + 1
    /\ calls' = [calls EXCEPT ![c] = Classify(c, k, "error")]
    /\ UNCHANGED <<appVars, walk, probe, tweets, txOpen, txOwner, txSnapshot, clock>>

\* COMMIT succeeds: resolveBatch(); processBatches goes on with the next
\* batch or resolves the call with stats
RunCommit(c) ==
    /\ calls[c].pc = "commit"
    /\ txOpen' = FALSE
    /\ txOwner' = 0
    /\ LET next == calls[c].first + BATCH_SIZE
       IN  calls' = [calls EXCEPT ![c] =
                IF next > Len(@.tweets)
                THEN [@ EXCEPT !.pc = "resolved"]
                ELSE [@ EXCEPT !.pc = "begin", !.first = next, !.batchStart = tweets]]
    /\ UNCHANGED <<appVars, walk, probe, tweets, txSnapshot, clock, faults>>

\* COMMIT fails: ROLLBACK is issued
CommitFails(c) ==
    /\ calls[c].pc = "commit"
    /\ faults < MaxFaults
    /\ faults' = faults + 1
    /\ calls' = [calls EXCEPT ![c] = [@ EXCEPT !.pc = "rollback", !.failure = "commit"]]
    /\ UNCHANGED <<appVars, walk, probe, tweets, txOpen, txOwner, txSnapshot, clock>>

\* a plausible slip: the failed COMMIT rejects without ROLLBACK
NoRollback(table, snapshot) == table

\* what the table holds after ROLLBACK
Rollback(table, snapshot) == snapshot

\* ROLLBACK runs, then rejectBatch(commitErr) rejects the call
RunRollback(c) ==
    /\ calls[c].pc = "rollback"
    /\ tweets' = Rollback(tweets, txSnapshot)
    /\ txOpen' = FALSE
    /\ txOwner' = 0
    /\ calls' = [calls EXCEPT ![c] = [@ EXCEPT !.pc = "rejected"]]
    /\ UNCHANGED <<appVars, walk, probe, txSnapshot, clock, faults>>

----------------------------------------------------------------------------
(* fetchAndStoreAllFollowings: the cursor walker                           *)

MAX_EMPTY_PAGES == 3
MAX_SAME_CURSOR == 2
MAX_PAGES == 20
\* if (userQueue.length >= 100)
QUEUE_FLUSH_SIZE == 100
\* const batchSize = 50 in saveUserBatch
SAVE_BATCH_SIZE == 50
MAX_FOLLOWINGS_PER_REQUEST == 70

\* a cursor is the sequence of its characters; no cursor: null and '' are
\* both falsy
Null == <<>>
\* the cursors "5|1" and "05|2"
X == <<"5", "|", "1">>
Y == <<"0", "5", "|", "2">>
Cursors == {X, Y}
\* what the listing may carry as data.cursor.bottom: nothing, a cursor, or
\* the cursor "0|9"
Bottoms == Cursors \cup {Null, <<"0", "|", "9">>}

\* bottomCursor.split('|'): the parts between the separators
RECURSIVE split(_, _)
split(str, sep) ==
    IF \A k \in 1..Len(str) : str[k] # sep THEN <<str>>
    ELSE LET first == CHOOSE k \in 1..Len(str) :
                          /\ str[k] = sep
                          /\ \A j \in 1..(k - 1) : str[j] # sep
         IN  <<SubSeq(str, 1, first - 1)>>
                 \o split(SubSeq(str, first + 1, Len(str)), sep)

\* a plausible slip: bottomCursor.startsWith('0')
nextCursorOfStartsWithZero(bottom) ==
    IF bottom # Null /\ bottom[1] = "0" THEN Null ELSE bottom

\* getUserFollowings: the next cursor it returns for a listing whose top-level
\* cursor object carries `bottom`
nextCursorOf(bottom) ==
    IF bottom # Null
    THEN LET cursorParts == split(bottom, "|")
         IN  IF Len(cursorParts) > 1 /\ cursorParts[1] = <<"0">>
             THEN Null
             ELSE bottom
    ELSE Null
\* numbers of accounts one page may carry: none, or a full page
PageSizes == {0, MAX_FOLLOWINGS_PER_REQUEST}
\* how many of the accounts delivered first the users table holds already:
\* none, or the first page and a half
KnownCounts == {0, MAX_FOLLOWINGS_PER_REQUEST + MAX_FOLLOWINGS_PER_REQUEST \div 2}

\* The accounts are numbered in the order the fetch function delivers them:
\* the page fetched when f accounts have been delivered before and that
\* carries n accounts holds the accounts f+1 .. f+n.  A list of accounts is
\* kept as the sequence of its maximal runs <<lo, hi>>.
Push(q, lo, hi) ==
    IF hi < lo THEN q
    ELSE IF q # <<>> /\ q[Len(q)][2] + 1 = lo
         THEN [q EXCEPT ![Len(q)] = <<q[Len(q)][1], hi>>]
         ELSE Append(q, <<lo, hi>>)

RECURSIVE Concat(_, _)
Concat(s, q) ==
    IF q = <<>> THEN s ELSE Concat(Push(s, Head(q)[1], Head(q)[2]), Tail(q))

RECURSIVE Length(_)
Length(q) ==
    IF q = <<>> THEN 0 ELSE Head(q)[2] - Head(q)[1] + 1 + Length(Tail(q))

\* users.slice(0, n)
RECURSIVE Take(_, _)
Take(q, n) ==
    IF n <= 0 \/ q = <<>> THEN <<>>
    ELSE LET h == Head(q)
             l == h[2] - h[1] + 1
         IN  IF l <= n THEN <<h>> \o Take(Tail(q), n - l)
                       ELSE << <<h[1], h[1] + n - 1>> >>

\* number of batches saveUserBatch cuts n users into
NumBatches(n) == (n + SAVE_BATCH_SIZE - 1) \div SAVE_BATCH_SIZE

IdleWalk ==
    [pc              |-> "idle",
     nextCursor      |-> Null,
     hasMorePages    |-> TRUE,
     pageNumber      |-> 1,
     emptyPageCount  |-> 0,
     sameCursorCount |-> 0,
     lastCursor      |-> Null,
     userQueue       |-> <<>>,
     pagesProcessed  |-> 0,
     emptyPages      |-> 0,
     totalFollowings |-> 0,
     newFollowings     |-> 0,
     updatedFollowings |-> 0,
     errors          |-> 0,
     lastPageSize    |-> 0,
     \* what the run has done, kept to state its properties
     bottom          |-> Null,   \* data.cursor.bottom of the latest listing
     startCursor     |-> Null,
     known           |-> 0,      \* the accounts 1..known have a row already
     saved           |-> <<>>,   \* accounts passed to saveUser and counted
     fetched         |-> 0,      \* accounts delivered by the fetch function
     fetches         |-> 0,      \* calls of the fetch function
     sentCursor      |-> Null,   \* cursor of the latest call
     sentRun         |-> 0,      \* latest calls in a row with that cursor
     firstNull       |-> 0,      \* first call that returned no cursor
     onlyEmptyX      |-> TRUE,   \* every call returned (0 accounts, "X")
     fetchFailures   |-> 0]      \* calls whose request failed

\* a plausible slip: > instead of >=
SameCursorLimitLate(count) == count > MAX_SAME_CURSOR

\* if (sameCursorCount >= MAX_SAME_CURSOR)
SameCursorLimit(count) == count >= MAX_SAME_CURSOR

\* a plausible slip: the limit is hit one empty page early
EmptyPageLimitEarly(count) == count >= MAX_EMPTY_PAGES - 1

\* if (emptyPageCount >= MAX_EMPTY_PAGES)
EmptyPageLimit(count) == count >= MAX_EMPTY_PAGES

\* a plausible slip: the counter of empty pages is never reset
AfterNonEmptyPageKeep(emptyPageCount) == emptyPageCount

\* else { emptyPageCount = 0 }
AfterNonEmptyPage(emptyPageCount) == 0

\* a plausible slip: the page cap is left out of the loop condition
LoopConditionNoCap(hasMorePages, pageNumber) == hasMorePages

\* while (hasMorePages && pageNumber <= MAX_PAGES)
LoopCondition(hasMorePages, pageNumber) ==
    hasMorePages /\ pageNumber <= MAX_PAGES

\* a plausible slip: a page without next cursor is not queued
QueueAfterPageDropLast(queue, lo, hi, newCursor) ==
    IF newCursor = Null THEN queue ELSE Push(queue, lo, hi)

\* userQueue.push(...followings)
QueueAfterPage(queue, lo, hi, newCursor) == Push(queue, lo, hi)

\* where the run goes after an iteration that did not throw
AfterIteration(w) ==
    [w EXCEPT !.pc = IF LoopCondition(w.hasMorePages, w.pageNumber)
                     THEN "loop" ELSE "flush"]

\* the accounts of a list whose number is above k
RECURSIVE CountAbove(_, _)
CountAbove(q, k) ==
    IF q = <<>> THEN 0
    ELSE LET h  == Head(q)
             lo == IF h[1] > k THEN h[1] ELSE k + 1
         IN  (IF h[2] >= lo THEN h[2] - lo + 1 ELSE 0) + CountAbove(Tail(q), k)

\* saveUser resolves { inserted: true } for an account without a row and
\* { updated: true } for one that has a row
Inserted(w, users) == CountAbove(users, w.known)
Updated(w, users) == Length(users) - CountAbove(users, w.known)

\* a plausible slip: stats.totalFollowings++ inside the inserted branch
TallyNewOnly(w, users) ==
    [w EXCEPT !.newFollowings     = @ + Inserted(w, users),
              !.updatedFollowings = @ + Updated(w, users),
              !.totalFollowings   = @ + Inserted(w, users)]

\* for (const result of results): one of newFollowings and
\* updatedFollowings, and totalFollowings, go up by one per result
Tally(w, users) ==
    [w EXCEPT !.newFollowings     = @ + Inserted(w, users),
              !.updatedFollowings = @ + Updated(w, users),
              !.totalFollowings   = @ + Length(users)]

\* saveUserBatch(users): the users are saved in batches of 50, each with
\* Promise.all over saveUser; failAt = 0: no saveUser rejects, failAt = j:
\* one of batch j rejects, which throws out of the walk into its catch
saveUserBatch(w, users, failAt) ==
    IF failAt = 0
    THEN [Tally(w, users) EXCEPT !.saved = Concat(@, users)]
    ELSE LET counted == Take(users, (failAt - 1) * SAVE_BATCH_SIZE)
         IN  [Tally(w, counted) EXCEPT !.saved = Concat(@, counted),
                                       !.errors = @ + 1,
                                       !.pc = "done"]

\* fetchAndStoreAllFollowings(username, startCursor)
StartWalk(startCursor, known) ==
    /\ walk.pc = "idle"
    /\ walk' = [IdleWalk EXCEPT !.pc = "loop",
                                !.nextCursor = startCursor,
                                !.startCursor = startCursor,
                                !.known = known]
    /\ UNCHANGED <<appVars, storeVars>>

\* the repeated-cursor check at the top of the loop body stops the walk
RepeatedCursorStop ==
    /\ walk.pc = "loop"
    /\ walk.nextCursor # Null
    /\ walk.nextCursor = walk.lastCursor
    /\ SameCursorLimit(walk.sameCursorCount + 1)
    /\ walk' = [walk EXCEPT !.sameCursorCount = @ + 1,
                            !.hasMorePages = FALSE,
                            !.pc = "flush"]
    /\ UNCHANGED <<appVars, storeVars>>

\* one iteration that reaches the fetch: n accounts and newCursor come
\* back; thrown: they come from the catch block of the fetch function
LoopBody(n, newCursor, failAt, thrown, bottom) ==
    /\ walk.pc = "loop"
    /\ LET repeated == walk.nextCursor # Null /\ walk.nextCursor = walk.lastCursor
           w1 == IF repeated
                 THEN [walk EXCEPT !.sameCursorCount = @ + 1]
                 ELSE [walk EXCEPT !.sameCursorCount = 0,
                                   !.lastCursor = walk.nextCursor]
           \* const result = await this.getUserFollowings(username, nextCursor)
           w2 == [w1 EXCEPT
                    !.pagesProcessed = @ + 1,
                    !.lastPageSize = n,
                    !.bottom    = bottom,
                    !.fetches   = @ + 1,
                    !.fetched   = @ + n,
                    !.sentRun   = IF walk.fetches > 0 /\ walk.sentCursor = walk.nextCursor
                                  THEN @ + 1 ELSE 1,
                    !.sentCursor = walk.nextCursor,
                    !.firstNull = IF @ = 0 /\ newCursor = Null
                                  THEN walk.fetches + 1 ELSE @,
                    !.onlyEmptyX = @ /\ n = 0 /\ newCursor = X,
                    !.fetchFailures = IF thrown THEN @ + 1 ELSE @]
       IN  /\ ~(repeated /\ SameCursorLimit(walk.sameCursorCount + 1))
           /\ IF n = 0
              THEN \* empty page
                   /\ failAt = 0
                   /\ LET w3 == [w2 EXCEPT !.emptyPageCount = @ + 1,
                                           !.emptyPages = @ + 1]
                      IN  walk' =
                            IF EmptyPageLimit(w3.emptyPageCount) \/ newCursor = Null
                            THEN [w3 EXCEPT !.hasMorePages = FALSE, !.pc = "flush"]
                            ELSE AfterIteration(
                                   [w3 EXCEPT !.nextCursor = newCursor,
                                              !.pageNumber = @ + 1])
              ELSE LET w3 == [w2 EXCEPT !.emptyPageCount = AfterNonEmptyPage(@),
                                        !.userQueue = QueueAfterPage(@, walk.fetched + 1,
                                                          walk.fetched + n, newCursor)]
                       flush == Length(w3.userQueue) >= QUEUE_FLUSH_SIZE
                       w4 == IF flush
                             THEN saveUserBatch([w3 EXCEPT !.userQueue = <<>>],
                                                w3.userQueue, failAt)
                             ELSE w3
                       w5 == [w4 EXCEPT !.nextCursor = newCursor,
                                        !.hasMorePages = (newCursor # Null),
                                        !.pageNumber = IF newCursor # Null THEN @ + 1 ELSE @]
                       w6 == IF w5.pageNumber > MAX_PAGES
                             THEN [w5 EXCEPT !.hasMorePages = FALSE] ELSE w5
                   IN  /\ IF flush THEN failAt \in 0..NumBatches(Length(w3.userQueue))
                                   ELSE failAt = 0
                       /\ walk' = IF failAt # 0 THEN w4 ELSE AfterIteration(w6)
    /\ UNCHANGED <<appVars, storeVars>>

\* the request of getUserFollowings succeeds: the listing carries n
\* accounts and the bottom cursor `bottom`
FetchPage(n, bottom, failAt) ==
    /\ walk.pc = "loop"
    /\ LoopBody(n, nextCursorOf(bottom), failAt, FALSE, bottom)

\* the request fails (network error, unusable response): the catch of
\* getUserFollowings returns { followings: [], nextCursor: null }
FetchPageFails ==
    /\ walk.pc = "loop"
    /\ LoopBody(0, Null, 0, TRUE, Null)

\* await saveUserBatch([], true): the rest of the queue is saved, the
\* stats are returned
FinalFlush(failAt) ==
    /\ walk.pc = "flush"
    /\ failAt \in 0..NumBatches(Length(walk.userQueue))
    /\ walk' = IF failAt = 0
               THEN [saveUserBatch([walk EXCEPT !.userQueue = <<>>], walk.userQueue, 0)
                       EXCEPT !.pc = "done"]
               ELSE saveUserBatch([walk EXCEPT !.userQueue = <<>>], walk.userQueue, failAt)
    /\ UNCHANGED <<appVars, storeVars>>

NextWalk ==
    \/ \E c \in Cursors \cup {Null}, known \in KnownCounts : StartWalk(c, known)
    \/ RepeatedCursorStop
    \/ \E n \in PageSizes, bottom \in Bottoms, failAt \in 0..3 :
          FetchPage(n, bottom, failAt)
    \/ FetchPageFails
    \/ \E failAt \in 0..3 : FinalFlush(failAt)

InitWalk ==
    /\ InitStore
    /\ probe = "like_count"
    /\ tweets = [i \in Ids |-> NoRow]
    /\ walk = IdleWalk
    /\ InitApp

SpecWalk == InitWalk /\ [][NextWalk]_vars

\* the fetch function and saveUser always return
SpecWalkFair == SpecWalk /\ WF_vars(NextWalk)

----------------------------------------------------------------------------
(* Callers                                                                 *)

\* pollList: const saveStats = await this.dbManager.saveTweetsToDatabase(tweets)
\* pollAllLists awaits each pollList, so the save runs alone
pollList(tw) ==
    /\ saveTweetsToDatabase(1, tw)

\* the next collection of the same list returns the same posts
pollListAgain(c) ==
    /\ c > 1
    /\ Settled(c - 1)
    /\ saveTweetsToDatabase(c, calls[c - 1].tweets)

\* posts getUserTweets may return for the user polled by call c
UserOf(c) == IF c = 1 THEN "u1" ELSE "u2"
UserBatches(c) ==
    {tw \in Batches : \A k \in 1..Len(tw) : tw[k].user_id = UserOf(c)}

\* pollUserTweets: the save is dispatched and not awaited, and pollAllUsers
\* polls the users of one batch in parallel
pollUserTweets(c, tw) ==
    /\ saveTweetsToDatabase(c, tw)

\* pollUserTweets of account u of the running cycle f, when getUserTweets
\* returned the posts tw: saveTweetsToDatabase(tweets) is called, its
\* promise gets a then and a catch that only log, and tweets.length is
\* returned to pollAllUsers without waiting for it
pollUserTweetsDispatches(f, u, tw) ==
    /\ cycles[f].pc = "running"
    /\ cycles[f].kind = "users"
    /\ u \in CurrentBatch(cycles[f])
    /\ Len(tw) > 0
    /\ u \in CallIds
    /\ calls[u].pc = "idle"
    /\ clock' = clock + 1
    /\ calls' = [calls EXCEPT ![u] = NewCall(tw)]
    /\ cycles' = [cycles EXCEPT ![f] =
                    ResolveWhenDone(
                      [Attempted(cycles[f], u) EXCEPT
                          !.totalTweets = @ + Len(tw),
                          !.processed = @ + 1])]
    /\ UNCHANGED <<probe, tweets, txOpen, txOwner, txSnapshot, faults, walk,
                   query, summaryVars, ai, timeVars, usave, webVars>>

Statement(c) ==
    \/ RunBegin(c)
    \/ BeginFails(c)
    \/ \E k \in 1..MaxTweets :
          \/ CheckGet(c, k)
          \/ CheckFails(c, k)
          \/ InsertRun(c, k)
          \/ InsertConflict(c, k)
          \/ InsertFails(c, k)
          \/ UpdateRun(c, k)
          \/ UpdateFails(c, k)
    \/ RunCommit(c)
    \/ CommitFails(c)
    \/ RunRollback(c)

\* the list path: one save at a time
Next ==
    \/ \E tw \in Batches : pollList(tw)
    \/ \E c \in CallIds : pollListAgain(c)
    \/ \E c \in CallIds : Statement(c)

Init ==
    /\ InitStore
    /\ walk = IdleWalk
    /\ InitApp

Spec == Init /\ [][Next]_vars

\* the user path: the saves of one collection cycle overlap
NextUsers ==
    \/ \E c \in CallIds : \E tw \in UserBatches(c) : pollUserTweets(c, tw)
    \/ \E c \in CallIds : BeginInsideTransaction(c)
    \/ \E c \in CallIds : Statement(c)

\* a collection cycle on a fresh database
InitUsers ==
    /\ InitStore
    /\ probe = "like_count"
    /\ tweets = [i \in Ids |-> NoRow]
    /\ walk = IdleWalk
    /\ InitApp

SpecUsers == InitUsers /\ [][NextUsers]_vars

\* one run of --collect-tweets: pollAllUsers over the tracked accounts, the
\* saves it dispatches, and the statements of those saves
NextCollect ==
    \/ pollAllUsers(1)
    \/ \E n \in 0..MaxCalls : getAllUsersResolves(1, n)
    \/ getAllUsersRejects(1)
    \/ \E u \in CallIds, outcome \in {"empty", "fetch fails"} :
          pollUserTweetsReturns(1, u, outcome)
    \/ \E u \in CallIds : \E tw \in UserBatches(u) :
          pollUserTweetsDispatches(1, u, tw)
    \/ \E c \in CallIds : BeginInsideTransaction(c)
    \/ \E c \in CallIds : Statement(c)

InitCollect == InitUsers

SpecCollect == InitCollect /\ [][NextCollect]_vars

\* one time-range query on a table of up to three posts
NextQuery ==
    \/ \E startTime, endTime \in Dates : getTweetsInTimeRange(startTime, endTime)
    \/ \E startTime, endTime \in Dates : QueryFails(startTime, endTime)

InitQuery ==
    /\ probe = "like_count"
    /\ tweets \in [QueryIds -> {NoRow} \cup UNION {QueryRows(i) : i \in QueryIds}]
    /\ \A i \in QueryIds : tweets[i] # NoRow => tweets[i].id = i
    /\ txOpen = FALSE
    /\ txOwner = 0
    /\ txSnapshot = tweets
    /\ calls = [c \in CallIds |-> IdleCall]
    /\ clock = 0
    /\ faults = 0
    /\ walk = IdleWalk
    /\ InitApp

SpecQuery == InitQuery /\ [][NextQuery]_vars

\* the generations of one run of the summarizer
InitSummary ==
    /\ InitStore
    /\ probe = "like_count"
    /\ tweets = [i \in Ids |-> NoRow]
    /\ walk = IdleWalk
    /\ query = IdleQuery
    /\ throttler = IdleThrottler
    /\ gens = [g \in GenIds |-> IdleGen]
    /\ summaries \in StoredSummaries
    /\ sfaults = 0
    /\ IdleCycles
    /\ ai = IdleAI
    /\ IdleTime
    /\ usave = IdleUserSave([i \in AccountIds |-> NoUser])
    /\ IdleWeb

SpecSummary == InitSummary /\ [][NextSummary]_vars

\* the store and the AI collaborator answer every request, and the event
\* loop runs every continuation
SpecSummaryFair == SpecSummary /\ WF_vars(StepSummary)

\* the firings of the collection job of one process
InitCycle ==
    /\ InitStore
    /\ probe = "like_count"
    /\ tweets = [i \in Ids |-> NoRow]
    /\ walk = IdleWalk
    /\ InitApp

SpecCycle == InitCycle /\ [][NextCycle]_vars

\* one call of _callAIWithRetry
InitAI ==
    /\ InitStore
    /\ probe = "like_count"
    /\ tweets = [i \in Ids |-> NoRow]
    /\ walk = IdleWalk
    /\ InitApp

SpecAI == InitAI /\ [][NextAI]_vars

\* calculateTimeRange on the instants of Instants
InitTime ==
    /\ InitStore
    /\ probe = "like_count"
    /\ tweets = [i \in Ids |-> NoRow]
    /\ walk = IdleWalk
    /\ query = IdleQuery
    /\ IdleSummary
    /\ IdleCycles
    /\ ai = IdleAI
    /\ now \in Instants
    /\ sched = IdleSched
    /\ timeRange = <<>>
    /\ usave = IdleUserSave([i \in AccountIds |-> NoUser])
    /\ IdleWeb

SpecTime == InitTime /\ [][NextTime]_vars

\* one process of the summarizer, started at 11:05 on a table that holds
\* the summary of a past window
InitSchedule ==
    /\ InitStore
    /\ probe = "like_count"
    /\ tweets = [i \in Ids |-> NoRow]
    /\ walk = IdleWalk
    /\ query = IdleQuery
    /\ throttler = IdleThrottler
    /\ gens = [g \in GenIds |-> IdleGen]
    /\ summaries = {StoredRow}
    /\ sfaults = 0
    /\ IdleCycles
    /\ ai = IdleAI
    /\ now = ScheduleInstants[1]
    /\ sched = IdleSched
    /\ timeRange = <<>>
    /\ usave = IdleUserSave([i \in AccountIds |-> NoUser])
    /\ IdleWeb

SpecSchedule == InitSchedule /\ [][NextSchedule]_vars

\* saveUser calls on a table users that holds any of the accounts
InitAccounts ==
    /\ InitStore
    /\ probe = "like_count"
    /\ tweets = [i \in Ids |-> NoRow]
    /\ walk = IdleWalk
    /\ query = IdleQuery
    /\ IdleSummary
    /\ IdleCycles
    /\ ai = IdleAI
    /\ IdleTime
    /\ \E table \in [AccountIds -> {"stored", "absent"}] :
          usave = IdleUserSave([i \in AccountIds |->
                                  IF table[i] = "stored" THEN StoredUser(i)
                                  ELSE NoUser])
    /\ IdleWeb

SpecAccounts == InitAccounts /\ [][NextAccounts]_vars

\* history requests on a table that holds any of the rows of HistoryPool
InitHistory ==
    /\ InitStore
    /\ probe = "like_count"
    /\ tweets = [i \in Ids |-> NoRow]
    /\ walk = IdleWalk
    /\ query = IdleQuery
    /\ throttler = IdleThrottler
    /\ gens = [g \in GenIds |-> IdleGen]
    /\ summaries \in SUBSET HistoryPool
    /\ sfaults = 0
    /\ IdleCycles
    /\ ai = IdleAI
    /\ IdleTime
    /\ usave = IdleUserSave([i \in AccountIds |-> NoUser])
    /\ IdleWeb

SpecHistory == InitHistory /\ [][NextHistory]_vars

\* requests for the latest summary on a table that holds any of the rows
\* of LatestPool
InitLatest ==
    /\ InitStore
    /\ probe = "like_count"
    /\ tweets = [i \in Ids |-> NoRow]
    /\ walk = IdleWalk
    /\ query = IdleQuery
    /\ throttler = IdleThrottler
    /\ gens = [g \in GenIds |-> IdleGen]
    /\ summaries \in SUBSET LatestPool
    /\ sfaults = 0
    /\ IdleCycles
    /\ ai = IdleAI
    /\ IdleTime
    /\ usave = IdleUserSave([i \in AccountIds |-> NoUser])
    /\ IdleWeb

SpecLatest == InitLatest /\ [][NextLatest]_vars

\* one start of each program, in each of its modes and environments
InitStartup ==
    /\ InitStore
    /\ probe = "like_count"
    /\ tweets = [i \in Ids |-> NoRow]
    /\ walk = IdleWalk
    /\ query = IdleQuery
    /\ IdleSummary
    /\ IdleCycles
    /\ ai = IdleAI
    /\ IdleTime
    /\ usave = IdleUserSave([i \in AccountIds |-> NoUser])
    /\ history = <<>>
    /\ \E program \in Programs, key \in Keys :
          \E mode \in ModesOf(program) : proc = NewProcess(program, mode, key)

SpecStartup == InitStartup /\ [][NextStartup]_vars

\* main runs to its end: none of its statements waits for anything
SpecStartupFair == SpecStartup /\ WF_vars(StepStartup)

----------------------------------------------------------------------------
(* Properties of saveTweetsToDatabase                                      *)

\* no call was made after call c
Latest(c) == \A d \in CallIds : d > c => calls[d].pc = "idle"

DistinctIds(tw) ==
    \A j, k \in 1..Len(tw) : j # k => tw[j].id # tw[k].id

\* input posts of call c with id i that ran an INSERT or UPDATE successfully
Written(c, i) ==
    {k \in 1..Len(calls[c].tweets) :
        calls[c].tweets[k].id = i /\ calls[c].item[k] \in {"new", "updated"}}

NumberOf(c, outcome) ==
    Cardinality({k \in 1..Len(calls[c].tweets) : calls[c].item[k] = outcome})

\* call c is a second pass: the call before it resolved with the same input
SecondPass(c) ==
    /\ c > 1
    /\ calls[c - 1].pc = "resolved"
    /\ calls[c].pc = "resolved"
    /\ calls[c].tweets = calls[c - 1].tweets
    /\ Len(calls[c].tweets) > 0
    /\ Latest(c)

AllSkipped(c) ==
    /\ calls[c].stats.new = 0
    /\ calls[c].stats.updated = 0
    /\ calls[c].stats.skipped = Len(calls[c].tweets)
    /\ tweets = calls[c].before

\* C1 as stated: for any store state and any batch, a second pass over the
\* identical batch (no store error anywhere) counts every post as skipped
\* and leaves every row, collected_at included, as it was
C1_IdempotentAnyBatch ==
    \A c \in CallIds : (SecondPass(c) /\ faults = 0) => AllSkipped(c)

\* C1 amended: the same for a batch whose ids are pairwise distinct, when no
\* post of either pass was counted in error
C1_IdempotentDistinctIds ==
    \A c \in CallIds :
        ( /\ SecondPass(c)
          /\ DistinctIds(calls[c].tweets)
          /\ calls[c - 1].stats.error = 0
          /\ calls[c].stats.error = 0 ) => AllSkipped(c)

\* a second pass over two distinct posts, the first pass having written both
C1_Witness ==
    \E c \in CallIds :
        /\ SecondPass(c)
        /\ DistinctIds(calls[c].tweets)
        /\ Len(calls[c].tweets) = 2
        /\ calls[c - 1].stats.new = 1
        /\ calls[c - 1].stats.updated = 1
        /\ calls[c].stats.skipped = 2

\* C2: reconciling a single post without store error: a stored post with a
\* different counter gives updated=1 and the stored counters become the
\* incoming ones; equal counters give skipped=1 and no write; an absent id
\* gives new=1 and the row is inserted
C2_UpsertOne ==
    \A c \in CallIds :
        ( /\ calls[c].pc = "resolved"
          /\ Len(calls[c].tweets) = 1
          /\ calls[c].stats.error = 0
          /\ Latest(c) ) =>
        LET tweet == calls[c].tweets[1]
            old   == calls[c].before[tweet.id]
        IN  /\ \A i \in Ids \ {tweet.id} : tweets[i] = calls[c].before[i]
            /\ IF old = NoRow
               THEN /\ calls[c].stats = [ZeroStats EXCEPT !.new = 1]
                    /\ tweets[tweet.id] = InsertedRow(tweet, calls[c].now)
               ELSE IF ~SameCounters(old, tweet)
               THEN /\ calls[c].stats = [ZeroStats EXCEPT !.updated = 1]
                    /\ tweets[tweet.id] # NoRow
                    /\ SameCounters(tweets[tweet.id], tweet)
               ELSE /\ calls[c].stats = [ZeroStats EXCEPT !.skipped = 1]
                    /\ tweets[tweet.id] = old

\* a stored post was reconciled with a larger counter and updated
C2_Witness ==
    \E c \in CallIds :
        /\ calls[c].pc = "resolved"
        /\ Len(calls[c].tweets) = 1
        /\ calls[c].stats = [ZeroStats EXCEPT !.updated = 1]
        /\ calls[c].before[calls[c].tweets[1].id] # NoRow
        /\ calls[c].before[calls[c].tweets[1].id][probe] = 0
        /\ tweets[calls[c].tweets[1].id][probe] = 1

Occurrences(c, i) ==
    {k \in 1..Len(calls[c].tweets) : calls[c].tweets[k].id = i}

Max(S) == CHOOSE m \in S : \A n \in S : n <= m
Min(S) == CHOOSE m \in S : \A n \in S : m <= n

\* C7 as stated: with no store failure, an id that occurs more than once in
\* the input ends up with the counters of its last occurrence; when the id
\* was new, its first occurrence is counted new and the later ones updated
\* or skipped
C7_LastOccurrenceWins ==
    \A c \in CallIds :
        (calls[c].pc = "resolved" /\ faults = 0 /\ Latest(c)) =>
        \A i \in Ids :
            Cardinality(Occurrences(c, i)) > 1 =>
                /\ tweets[i] # NoRow
                /\ SameCounters(tweets[i], calls[c].tweets[Max(Occurrences(c, i))])
                /\ calls[c].before[i] = NoRow =>
                     \A k \in Occurrences(c, i) :
                        IF k = Min(Occurrences(c, i))
                        THEN calls[c].item[k] = "new"
                        ELSE calls[c].item[k] \in {"updated", "skipped"}

\* what a resolved or rejected call has left in the table: the posts of the
\* batches before index upto that were written are stored with counters one
\* of them wrote, and every other id is as it was when the call was made
WritesVisible(c, upto) ==
    \A i \in Ids :
        LET w == {k \in Written(c, i) : k < upto}
        IN  IF w = {}
            THEN tweets[i] = calls[c].before[i]
            ELSE /\ tweets[i] # NoRow
                 /\ tweets[i].collected_at = calls[c].now
                 /\ \E k \in w : SameCounters(tweets[i], calls[c].tweets[k])

\* C8: an item-level store error never rejects the call: a call is rejected
\* only by a failed BEGIN or COMMIT; a resolved call has classified every
\* post, counts in error exactly the posts whose statement failed, and the
\* writes of all other posts are committed
C8_BatchIsolation ==
    \A c \in CallIds :
        /\ calls[c].pc = "rejected" => calls[c].failure \in {"begin", "commit"}
        /\ (calls[c].pc = "resolved" /\ Latest(c)) =>
              /\ ~txOpen
              /\ \A k \in 1..Len(calls[c].tweets) : calls[c].item[k] \in Classified
              /\ \A o \in Classified : calls[c].stats[o] = NumberOf(c, o)
              /\ WritesVisible(c, Len(calls[c].tweets) + 1)

\* a resolved call in which the store failed the statement of one post and
\* the other post of the same batch was inserted
C8_Witness ==
    \E c \in CallIds :
        /\ calls[c].pc = "resolved"
        /\ faults = 1
        /\ Len(calls[c].tweets) = 2
        /\ DistinctIds(calls[c].tweets)
        /\ calls[c].stats.error = 1
        /\ calls[c].stats.new = 1
        /\ tweets[calls[c].tweets[2].id] # NoRow
        /\ calls[c].item[1] = "error"

\* C9: a settled call has no transaction open; when it resolved, the writes
\* of every batch are in the table; when it was rejected, by a failed BEGIN
\* or COMMIT, the table is what it was before the failing batch: the batches
\* before it are committed and no write of the failing batch is visible
C9_BatchAtomicity ==
    \A c \in CallIds :
        (Settled(c) /\ Latest(c)) =>
            /\ ~txOpen
            /\ calls[c].pc = "resolved" =>
                  WritesVisible(c, Len(calls[c].tweets) + 1)
            /\ calls[c].pc = "rejected" =>
                  /\ calls[c].failure \in {"begin", "commit"}
                  /\ tweets = calls[c].batchStart
                  /\ WritesVisible(c, calls[c].first)

\* a call rejected by a failed COMMIT of its second batch, after a post of
\* that batch had been inserted and a post of the first batch committed
C9_Witness ==
    \E c \in CallIds :
        /\ calls[c].pc = "rejected"
        /\ calls[c].failure = "commit"
        /\ calls[c].first > 1
        /\ calls[c].item[calls[c].first] = "new"
        /\ calls[c].item[1] = "new"
        /\ tweets[calls[c].tweets[calls[c].first].id] = NoRow
        /\ tweets[calls[c].tweets[1].id] # NoRow

\* C10 as stated: no BEGIN of one call is outstanding on the connection
\* while the transaction of another call is open
C10_SingleWriter ==
    \A c \in CallIds :
        ~(calls[c].pc = "begin" /\ txOpen /\ txOwner # c)

----------------------------------------------------------------------------
(* Properties of fetchAndStoreAllFollowings                                *)

Stopped == walk.pc \in {"flush", "done"}

\* the accounts 1 .. n as a list
AllAccounts(n) == IF n = 0 THEN <<>> ELSE << <<1, n>> >>

\* C3: when the walk has returned without a save error and call n of the
\* fetch function was the first to return no cursor, then n <= MAX_PAGES,
\* the fetch function was called n times, pagesProcessed is n and the
\* accounts saved are those of the pages 1..n in the order of delivery
C3_NormalEnd ==
    (walk.pc = "done" /\ walk.errors = 0 /\ walk.firstNull # 0) =>
        /\ walk.firstNull <= MAX_PAGES
        /\ walk.fetches = walk.firstNull
        /\ walk.pagesProcessed = walk.firstNull
        /\ walk.saved = AllAccounts(walk.fetched)
        /\ walk.totalFollowings = walk.fetched
        /\ walk.userQueue = <<>>

\* three full pages, the third without cursor, all saved
C3_Witness ==
    /\ walk.pc = "done"
    /\ walk.errors = 0
    /\ walk.firstNull = 3
    /\ walk.pagesProcessed = 3
    /\ walk.saved = AllAccounts(3 * MAX_FOLLOWINGS_PER_REQUEST)

\* C4 as stated: whatever the starting cursor, when every call of the fetch
\* function returns (0 accounts, cursor "X") the walk stops at call
\* MAX_EMPTY_PAGES with emptyPages = MAX_EMPTY_PAGES and hasMorePages false
C4_EmptyTailAnyStart ==
    (Stopped /\ walk.onlyEmptyX /\ walk.fetches > 0) =>
        /\ walk.fetches = MAX_EMPTY_PAGES
        /\ walk.emptyPages = MAX_EMPTY_PAGES
        /\ ~walk.hasMorePages

\* C4 amended: that holds when the starting cursor is not "X" itself; from
\* the starting cursor "X" the repeated-cursor check stops the walk first,
\* after MAX_SAME_CURSOR calls, with emptyPages = MAX_SAME_CURSOR
C4_EmptyTail ==
    (Stopped /\ walk.onlyEmptyX /\ walk.fetches > 0) =>
        /\ ~walk.hasMorePages
        /\ IF walk.startCursor # X
           THEN /\ walk.fetches = MAX_EMPTY_PAGES
                /\ walk.emptyPages = MAX_EMPTY_PAGES
                /\ walk.emptyPageCount = MAX_EMPTY_PAGES
           ELSE /\ walk.fetches = MAX_SAME_CURSOR
                /\ walk.emptyPages = MAX_SAME_CURSOR

\* a walk without starting cursor stopped by three empty pages with cursor "X"
C4_Witness ==
    /\ walk.pc = "done"
    /\ walk.onlyEmptyX
    /\ walk.startCursor = Null
    /\ walk.emptyPages = MAX_EMPTY_PAGES
    /\ walk.fetches = MAX_EMPTY_PAGES

\* C5: the same cursor is sent to the fetch function at most
\* MAX_SAME_CURSOR times in a row, and once the repeat counter has reached
\* MAX_SAME_CURSOR the walk has left the loop
C5_RepeatedCursor ==
    /\ walk.sentRun <= MAX_SAME_CURSOR
    /\ walk.sameCursorCount >= MAX_SAME_CURSOR => Stopped /\ ~walk.hasMorePages

\* the fetch function returned the cursor it was sent, on full pages, until
\* the repeat counter stopped the walk
C5_Witness ==
    /\ walk.pc = "done"
    /\ walk.sameCursorCount = MAX_SAME_CURSOR
    /\ walk.sentRun = MAX_SAME_CURSOR
    /\ walk.emptyPages = 0
    /\ walk.fetches > MAX_SAME_CURSOR

\* C6: whatever the fetch function returns, the walk is never past
\* MAX_PAGES calls of it, and it returns
C6_TerminatesWithinCap ==
    /\ [](walk.pagesProcessed <= MAX_PAGES /\ walk.fetches <= MAX_PAGES)
    /\ <>(walk.pc = "done")

\* a walk of MAX_PAGES full pages, each with a fresh cursor, has returned
C6_Witness ==
    /\ walk.pc = "done"
    /\ walk.pagesProcessed = MAX_PAGES
    /\ walk.emptyPages = 0
    /\ walk.hasMorePages = FALSE
    /\ walk.nextCursor # Null
    /\ walk.sameCursorCount = 0

----------------------------------------------------------------------------
(* Frame of the ingestion path on table tweets                             *)

\* the table as committed: what a ROLLBACK would leave
Committed == IF txOpen THEN txSnapshot ELSE tweets

\* the columns no UPDATE of the ingestion path names (text stands for
\* username, screen_name, text and media_urls, which the statements treat
\* alike)
SameIdentity(row, next) ==
    /\ next # NoRow
    /\ next.id = row.id
    /\ next.user_id = row.user_id
    /\ next.text = row.text
    /\ next.created_at = row.created_at

\* C11: a step of the ingestion path changes, in a stored post, only the six
\* counters and collected_at: a committed post stays stored with its id,
\* author and text, and a post the connection sees keeps them too, or
\* disappears only because the INSERT that created it is rolled back
C11_ImmutableFields ==
    [][\A i \in Ids :
         /\ Committed[i] # NoRow => SameIdentity(Committed[i], Committed'[i])
         /\ tweets[i] # NoRow =>
              \/ SameIdentity(tweets[i], tweets'[i])
              \/ /\ txOpen /\ ~txOpen'
                 /\ txSnapshot[i] = NoRow
                 /\ tweets'[i] = NoRow]_vars

\* an UPDATE has rewritten the counters of a stored post whose incoming
\* record carried another text, and the batch is committed
C11_Witness ==
    \E c \in CallIds : \E k \in 1..Len(calls[c].tweets) :
        /\ calls[c].pc = "resolved"
        /\ calls[c].item[k] = "updated"
        /\ tweets[calls[c].tweets[k].id] # NoRow
        /\ tweets[calls[c].tweets[k].id].text # calls[c].tweets[k].text
        /\ tweets[calls[c].tweets[k].id].collected_at = calls[c].now
        /\ SameCounters(tweets[calls[c].tweets[k].id], calls[c].tweets[k])

----------------------------------------------------------------------------
(* Properties of getTweetsInTimeRange                                      *)

\* ms of a well-formed timestamp, by the calendar
InstantOf(s) ==
    CASE s = "T1" -> 1
      [] s = "T2" -> 2
      [] s = "T3" -> 3
      [] s = NullTimestamp -> 0

Parseable(s) == s \in {"T1", "T2", "T3", NullTimestamp}

\* C12: a resolved query holds exactly the stored posts whose created_at
\* parses to an instant t with start <= t <= end, both ends included; a
\* post whose created_at is no date is never among them, and the table is
\* as it was before the query
C12_TimeRange ==
    query.pc = "resolved" =>
        /\ \A i \in DOMAIN query.before :
             (query.before[i] # NoRow /\ query.before[i] \in query.rows) <=>
                 /\ query.before[i] # NoRow
                 /\ Parseable(query.before[i].created_at)
                 /\ query.startTime.valid /\ query.endTime.valid
                 /\ query.startTime.ms <= InstantOf(query.before[i].created_at)
                 /\ InstantOf(query.before[i].created_at) <= query.endTime.ms
        /\ \A row \in query.rows : \E i \in DOMAIN query.before : query.before[i] = row
        /\ tweets = query.before

\* posts at T1 < T2 < T3 and the query [T1, T2]: the posts at T1 and T2 and
\* no other
C12_Witness ==
    /\ query.pc = "resolved"
    /\ tweets["p1"] # NoRow /\ tweets["p1"].created_at = "T1"
    /\ tweets["p2"] # NoRow /\ tweets["p2"].created_at = "T2"
    /\ tweets["p3"] # NoRow /\ tweets["p3"].created_at = "T3"
    /\ query.startTime = DateParse("T1")
    /\ query.endTime = DateParse("T2")
    /\ query.rows = {tweets["p1"], tweets["p2"]}

----------------------------------------------------------------------------
(* Properties of the throttler and of generateAndSaveSummary               *)

Holders == {g \in GenIds : InBody(g)}

\* C13: currentRequests stays within 0..maxConcurrent and is the number of
\* callers that hold a slot (acquired, not yet released); the summarizer's
\* throttler has maxConcurrent = 1, so at most one generateAndSaveSummary
\* body runs at a time, whatever triggered it
C13_ThrottlerBound ==
    /\ 0 <= throttler.currentRequests
    /\ throttler.currentRequests <= maxConcurrent
    /\ throttler.currentRequests = Cardinality(Holders)
    /\ maxConcurrent = 1
    /\ Cardinality(Holders) <= 1

\* a generation is in its AI step while the next one waits, after an
\* earlier generation has released the slot
C13_Witness ==
    \E g, h, k \in GenIds :
        /\ gens[k].pc = "returned"
        /\ gens[g].pc = "generate" /\ gens[g].waited
        /\ gens[h].pc = "waiting"
        /\ throttler.currentRequests = 1
        /\ throttler.requestQueue = <<h>>

\* C15: a generation that could not take the slot at once is turned away:
\* it is never left waiting in the queue and never enters the body (no
\* query, no AI call)
C15_RejectWhenBusy ==
    \A g \in GenIds :
        gens[g].waited => (gens[g].pc # "waiting" /\ ~InBody(g) /\ gens[g].rows = 0)

\* the row call g inserted is in the table with this status
InsertedWith(g, status) ==
    \E r \in summaries :
        /\ r.id = gens[g].rowId
        /\ r.period = gens[g].period
        /\ r.status = status

C18_Caught ==
    \A g \in GenIds :
        /\ gens[g].pc # "rejected"
        /\ (gens[g].pc = "returned" /\ gens[g].escaped # "none") =>
              /\ gens[g].result = "null"
              /\ gens[g].errorSaveFailed \/ InsertedWith(g, "error")

\* C18: generateAndSaveSummary never rejects; when an error of the query or
\* of a save reaches its catch, the call returns null and a row with status
\* error is stored for the period unless that save fails too; and every
\* generation that was requested, a later one included, runs to its return
C18_SurvivesFailedRuns ==
    /\ []C18_Caught
    /\ \A g \in GenIds : (gens[g].pc # "idle") ~> (gens[g].pc = "returned")

\* a generation failed in its query and stored an error row, and the
\* generation that waited behind it has stored its summary
C18_Witness ==
    \E g, h \in GenIds :
        /\ g < h
        /\ gens[g].pc = "returned" /\ gens[g].escaped = "query"
        /\ InsertedWith(g, "error")
        /\ gens[h].waited
        /\ gens[h].pc = "returned" /\ gens[h].result = "row"
        /\ InsertedWith(h, "success")

\* C20 as stated: every generation that has returned has inserted a row
C20_EveryGenerationInserts ==
    \A g \in GenIds : gens[g].pc = "returned" => gens[g].rows = 1

C20_OneRowUnlessSaveFails ==
    \A g \in GenIds :
        gens[g].pc = "returned" =>
            gens[g].rows = IF gens[g].errorSaveFailed THEN 0 ELSE 1

\* C20 amended: a step never changes or removes a row of table summaries
\* and adds at most one, whose id is larger than every id of the table;
\* a generation inserts exactly one row, or none when the save of its
\* error row failed
C20_AppendOnly ==
    /\ [][/\ summaries \subseteq summaries'
          /\ Cardinality(summaries' \ summaries) <= 1
          /\ \A r \in summaries' \ summaries :
                 \A q \in summaries : r.id > q.id]_vars
    /\ []C20_OneRowUnlessSaveFails

\* two generations of the same period have each added a row to a table
\* that held one before
C20_Witness ==
    \E g, h \in GenIds :
        /\ g # h
        /\ gens[g].pc = "returned" /\ gens[h].pc = "returned"
        /\ gens[g].period = gens[h].period
        /\ gens[g].rows = 1 /\ gens[h].rows = 1
        /\ gens[g].rowId < gens[h].rowId
        /\ Cardinality({r \in summaries : r.period = gens[g].period}) = 3

----------------------------------------------------------------------------
(* Properties of the collection job                                        *)

\* C14: two firings of the same job are never running at the same time
C14_NoOverlap ==
    \A f, h \in FiringIds :
        (f # h /\ cycles[f].kind = cycles[h].kind) =>
            ~(cycles[f].pc \in {"reading", "running"}
              /\ cycles[h].pc \in {"reading", "running"})

\* C16: a cycle that has read its units resolves only after every unit was
\* attempted, each exactly once, whatever failed in a unit, and its stats
\* satisfy processed + errors = number of units
C16_UnitIsolation ==
    \A f \in FiringIds :
        (cycles[f].pc = "resolved" /\ cycles[f].loaded) =>
            /\ \A u \in 1..cycles[f].units : cycles[f].attempts[u] = 1
            /\ \A u \in 1..MaxUnits : u > cycles[f].units => cycles[f].attempts[u] = 0
            /\ cycles[f].processed + cycles[f].errors = cycles[f].units

\* a cycle over three lists has resolved with one failed list and two
\* lists whose posts were saved
C16_Witness ==
    \E f \in FiringIds :
        /\ cycles[f].pc = "resolved"
        /\ cycles[f].kind = "lists"
        /\ cycles[f].units = 3
        /\ cycles[f].errors = 1
        /\ cycles[f].processed = 2
        /\ cycles[f].totalTweets = 2

----------------------------------------------------------------------------
(* Failure of a page fetch                                                 *)

\* C17: a walk in which a page request failed is reported as failed: it
\* returns with errors > 0
C17_FetchFailureIsFatal ==
    (walk.pc = "done" /\ walk.fetchFailures > 0) => walk.errors > 0

----------------------------------------------------------------------------
(* Properties of _callAIWithRetry                                          *)

\* requests sent so far
Attempts == Len(ai.outcomes) + (IF ai.pc = "request" THEN 1 ELSE 0)

Transient(outcome) ==
    /\ outcome # Ok
    /\ \/ Includes(outcome, "ECONNRESET")
       \/ Includes(outcome, "socket hang up")
       \/ Includes(outcome, "timeout")

\* C19: at most 3 attempts; attempt k+1 is made only after attempt k failed
\* with a transient network error, and after a delay of 3000*k ms; a
\* failure of another kind and the failure of the third attempt are
\* rethrown as they are, with no further attempt; the text of the first
\* successful attempt is returned
C19_BoundedRetry ==
    /\ Attempts <= 3
    /\ \A k \in 1..(Attempts - 1) : Transient(ai.outcomes[k])
    /\ Attempts > 0 => Len(ai.delays) = Attempts - 1
    /\ \A k \in 1..Len(ai.delays) :
          /\ ai.delays[k] = 3000 * k
          /\ Transient(ai.outcomes[k])
    /\ ai.pc = "thrown" =>
          /\ ai.outcomes[Attempts] # Ok
          /\ ai.error = ai.outcomes[Attempts]
          /\ ~Transient(ai.outcomes[Attempts]) \/ Attempts = 3
    /\ ai.pc = "returned" =>
          /\ ai.outcomes[Attempts] = Ok
          /\ ai.result = <<"text of attempt", Attempts>>
    /\ \A k \in 1..Len(ai.outcomes) :
          (ai.outcomes[k] = Ok \/ ~Transient(ai.outcomes[k]) \/ k = 3)
              => (k = Len(ai.outcomes) /\ ai.pc \in {"returned", "thrown"})

\* two attempts were reset by the peer, 3000 ms and 6000 ms were waited,
\* and the third attempt returned its text
C19_Witness ==
    /\ ai.pc = "returned"
    /\ ai.outcomes = << <<"read", "ECONNRESET">>, <<"read", "ECONNRESET">>, Ok >>
    /\ ai.delays = <<3000, 6000>>
    /\ ai.result = <<"text of attempt", 3>>


----------------------------------------------------------------------------
(* Properties of the summary windows and of the triggers                   *)

\* the whole hours of the two hours up to time t
WholeHours(t) ==
    {k * SecondsPerHour :
        k \in ((t \div SecondsPerHour) - 1)..(t \div SecondsPerHour)}

\* the latest whole hour strictly before t
LatestHour(t) ==
    CHOOSE h \in WholeHours(t) :
        /\ h < t
        /\ \A k \in WholeHours(t) : k < t => k <= h

HoursOf(period) ==
    CASE period = "1hour" -> 1 [] period = "12hours" -> 12 [] period = "1day" -> 24

\* the window of `period` that is the most recent one at time t
LatestWindow(period, t) ==
    [start |-> LatestHour(t) - HoursOf(period) * SecondsPerHour,
     end   |-> LatestHour(t)]

\* the row call g inserted
RowOf(g) == CHOOSE r \in summaries : r.id = gens[g].rowId

WindowOf(r) == [start |-> r.start_time, end |-> r.end_time]

\* the generations a request of the web interface started
WebGens == {g \in GenIds : sched.trigger[g] = "web"}

\* the summary a request names is historical: it is stored, and its window
\* was no longer the most recent one when the process started
Historical(id) ==
    \E r \in summaries :
        /\ r.id = id
        /\ r.end_time < LatestHour(ScheduleInstants[1])

\* the rows with the id of the row call g inserted
RowsOf(g) == {r \in summaries : r.id = gens[g].rowId}

OwnGens == {g \in GenIds : sched.trigger[g] \in {"startup", "cron"}}

\* C27: the generations the summarizer starts itself, at startup and from
\* its cron jobs, never insert two rows for the same period and window
C27_OneReportPerWindow ==
    \A g, h \in OwnGens :
        (/\ gens[g].rowId # 0
         /\ gens[h].rowId # 0
         /\ RowOf(g).period = RowOf(h).period
         /\ WindowOf(RowOf(g)) = WindowOf(RowOf(h)))
            => g = h


----------------------------------------------------------------------------
(* Properties of saveUser                                                  *)

\* the calls whose statements have all run
FinishedUserCalls ==
    {c \in UserCallIds : usave.calls[c].pc \in {"resolved", "rejected"}}

\* C22: every saveUser call reports exactly one of inserted and updated,
\* and from then on table users holds a row with the id of its account
C22_AccountUpsert ==
    \A c \in FinishedUserCalls :
        /\ usave.calls[c].result \in {"inserted", "updated"}
        /\ usave.users[usave.calls[c].user.id] # NoUser
        /\ usave.users[usave.calls[c].user.id].id = usave.calls[c].user.id


----------------------------------------------------------------------------
(* Properties of the history endpoint and of the startup                   *)

\* the rows of `period` in the order of the history, newest first
NewestFirst(period) ==
    OrderByCreatedAtDesc({r \in summaries : r.period = period})

Smaller(a, b) == IF a < b THEN a ELSE b

\* C23: every history request returns the rows of its period, newest
\* first, from row offset + 1 on and at most limit of them, so the pages of
\* different numbers of one listing share no row
C23_HistoryPages ==
    /\ \A i \in 1..Len(history) :
          history[i].rows =
              SubSeq(NewestFirst(history[i].period), history[i].offset + 1,
                     Smaller(history[i].offset + history[i].limit,
                             Len(NewestFirst(history[i].period))))
    /\ \A i, j \in 1..Len(history) :
          (/\ history[i].period = history[j].period
           /\ history[i].limit = history[j].limit
           /\ history[i].page # history[j].page)
             => {history[i].rows[k].id : k \in 1..Len(history[i].rows)}
                  \cap {history[j].rows[k].id : k \in 1..Len(history[j].rows)}
                  = {}

\* the program needs its credential in this mode
RequiresKey(p) == "check" \in {Steps(p.program, p.mode)[k] :
                                  k \in 1..Len(Steps(p.program, p.mode))}

\* nothing is scheduled, running or listening unless the credential check
\* has passed, and a process that lacks the credential ends with status 1
CredentialFirst ==
    /\ (proc.scheduled \/ proc.running \/ proc.listening)
          => proc.checked /\ ~Falsy(proc.key)
    /\ (proc.pc = "exited" /\ RequiresKey(proc) /\ Falsy(proc.key))
          => proc.exitCode = 1

\* C24: no job is scheduled, no run started and no server listening before
\* the credential check has passed, and a process started without its
\* credential exits with status 1
C24_ConfigurationErrorIsFatal ==
    /\ []CredentialFirst
    /\ (RequiresKey(proc) /\ Falsy(proc.key))
          ~> (proc.pc = "exited" /\ proc.exitCode = 1)

\* the summarizer was started without GEMINI_API_KEY and has exited with
\* status 1, with nothing scheduled and no server listening
C24_Witness ==
    /\ proc.program = "index.js"
    /\ proc.key = "undefined"
    /\ proc.pc = "exited"
    /\ proc.exitCode = 1
    /\ ~proc.scheduled /\ ~proc.running /\ ~proc.listening


----------------------------------------------------------------------------
(* Properties of the cursors and of the empty pages of the walk            *)

\* the bottom cursor has the form "0|..."
EndForm(bottom) == Len(bottom) >= 2 /\ bottom[1] = "0" /\ bottom[2] = "|"

\* the next cursor the claim expects for a bottom cursor
ExpectedCursor(bottom) == IF EndForm(bottom) THEN Null ELSE bottom

\* C25: after a listing whose bottom cursor has the form "0|..." the walk
\* fetches no further page and stores the accounts of that page; every
\* other bottom cursor becomes the next cursor as it is
C25_EndOfListCursor ==
    walk.fetches > 0 =>
        /\ EndForm(walk.bottom)
              => walk.pc # "loop" /\ (walk.errors = 0 => ~walk.hasMorePages)
        /\ (\/ walk.pc = "loop"
            \/ /\ walk.lastPageSize > 0
               /\ walk.errors = 0
               /\ walk.pc \in {"flush", "done"})
              => walk.nextCursor = ExpectedCursor(walk.bottom)
        /\ (EndForm(walk.bottom) /\ walk.pc = "done" /\ walk.errors = 0)
              => Length(walk.saved) = walk.fetched

\* a walk of two pages whose second listing carried "0|9": it ended after
\* that page, with the accounts of both pages stored
C25_Witness ==
    /\ walk.pc = "done"
    /\ walk.errors = 0
    /\ walk.fetches = 2
    /\ EndForm(walk.bottom)
    /\ walk.lastPageSize > 0
    /\ walk.fetched = 2 * MAX_FOLLOWINGS_PER_REQUEST
    /\ Length(walk.saved) = walk.fetched

\* one more page was fetched in this step
Fetched == walk'.fetches = walk.fetches + 1

\* C30: an empty page adds one to the count of consecutive empty pages and
\* to emptyPages, a page with accounts sets the consecutive count to 0 and
\* leaves emptyPages; after an empty page the walk goes on unless the
\* consecutive count has reached MAX_EMPTY_PAGES, the page carried no next
\* cursor, or the page cap is reached
C30_ConsecutiveEmptyPages ==
    /\ [](walk.emptyPageCount <= MAX_EMPTY_PAGES
            /\ walk.emptyPageCount <= walk.emptyPages
            /\ (walk.pc = "loop" => walk.emptyPageCount < MAX_EMPTY_PAGES))
    /\ [][Fetched =>
            IF walk'.lastPageSize = 0
            THEN /\ walk'.emptyPageCount = walk.emptyPageCount + 1
                 /\ walk'.emptyPages = walk.emptyPages + 1
                 /\ walk'.pc # "loop"
                      <=> \/ walk'.emptyPageCount >= MAX_EMPTY_PAGES
                          \/ ExpectedCursor(walk'.bottom) = Null
                          \/ walk'.pageNumber > MAX_PAGES
            ELSE /\ walk'.emptyPageCount = 0
                 /\ walk'.emptyPages = walk.emptyPages]_vars

\* a walk that saw four empty pages, never three in a row, and went on
C30_Witness ==
    /\ walk.pc = "loop"
    /\ walk.emptyPages = MAX_EMPTY_PAGES + 1
    /\ walk.emptyPageCount = 0
    /\ walk.lastPageSize > 0


\* the input posts of call c that ended with the given outcome
ItemsWith(c, outcome) == {k \in DOMAIN calls[c].item : calls[c].item[k] = outcome}

Total(stats) == stats.new + stats.updated + stats.skipped + stats.error

\* C28: when saveTweetsToDatabase has resolved, every input post has exactly
\* one outcome and each counter of the result is the number of posts with
\* that outcome, so new + updated + skipped + error is the length of the
\* input; a call with an empty input resolves with four zeros in the step
\* that makes it, and that step leaves the table, the transaction state and
\* the clock alone
C28_OutcomeAccounting ==
    /\ [](\A c \in CallIds : calls[c].pc = "resolved" =>
             /\ \A k \in DOMAIN calls[c].item : calls[c].item[k] \in Classified
             /\ \A o \in Classified :
                   calls[c].stats[o] = Cardinality(ItemsWith(c, o))
             /\ Total(calls[c].stats) = Len(calls[c].tweets)
             /\ Len(calls[c].tweets) = 0 => calls[c].stats = ZeroStats)
    /\ [][\A c \in CallIds :
             calls[c].pc = "idle" /\ calls'[c].pc = "resolved" =>
                /\ Len(calls'[c].tweets) = 0
                /\ UNCHANGED <<tweets, txOpen, txOwner, txSnapshot, clock>>]_vars

\* a resolved call of more posts than one batch holds whose result has a
\* skipped post and at least one other non-zero counter
C28_Witness ==
    \E c \in CallIds :
        /\ calls[c].pc = "resolved"
        /\ Len(calls[c].tweets) > BATCH_SIZE
        /\ calls[c].stats.skipped > 0
        /\ Cardinality({o \in Classified : calls[c].stats[o] > 0}) >= 2

\* the first indices of the batches of an input: 1, 1 + BATCH_SIZE, ...
BatchStarts == {1 + b * BATCH_SIZE : b \in 0..MaxTweets}

\* C29: the batches of a call are the consecutive runs of at most BATCH_SIZE
\* input posts, taken in input order; while one is being processed every
\* post of an earlier batch has its outcome and no post of a later batch
\* has been looked at; COMMIT is issued only when every post of the batch
\* has its outcome; BEGIN of the next batch is issued only by the step in
\* which COMMIT of the batch before it succeeded and closed its transaction
C29_BatchSequencing ==
    /\ [](\A c \in CallIds : InFlight(c) =>
             /\ calls[c].first \in BatchStarts
             /\ calls[c].first <= Len(calls[c].tweets)
             /\ Cardinality(BatchOf(c)) \in 1..BATCH_SIZE
             /\ \A k \in DOMAIN calls[c].item :
                   /\ k < calls[c].first => calls[c].item[k] \in Classified
                   /\ k \notin BatchOf(c) /\ k > calls[c].first =>
                         calls[c].item[k] = "wait"
                   /\ k \in BatchOf(c) /\ calls[c].pc = "begin" =>
                         calls[c].item[k] = "wait"
                   /\ k \in BatchOf(c) /\ calls[c].pc = "commit" =>
                         calls[c].item[k] \in Classified
             /\ calls[c].pc = "begin" => txOwner # c)
    /\ [][\A c \in CallIds :
             /\ calls'[c].first # calls[c].first /\ calls[c].pc # "idle"
                  /\ calls'[c].pc # "idle" =>
                   /\ calls[c].pc = "commit"
                   /\ calls'[c].pc = "begin"
                   /\ calls'[c].first = calls[c].first + BATCH_SIZE
                   /\ txOpen /\ ~txOpen'
             /\ calls'[c].pc = "commit" /\ calls[c].pc # "commit" =>
                   /\ calls[c].pc = "items"
                   /\ \E k \in BatchOf(c) :
                         /\ calls[c].item[k] \notin Classified
                         /\ \A j \in BatchOf(c) \ {k} :
                               calls[c].item[j] \in Classified]_vars

\* a call in its second batch, whose BEGIN has run, after a full first batch
C29_Witness ==
    \E c \in CallIds :
        /\ calls[c].pc = "items"
        /\ calls[c].first = 1 + BATCH_SIZE
        /\ Len(calls[c].tweets) = MaxTweets
        /\ \A k \in 1..BATCH_SIZE : calls[c].item[k] \in Classified


\* how the walk stopped: by the repeated-cursor check, the empty-page
\* limit, a page without next cursor, or the page cap
StoppedBy ==
    IF SameCursorLimit(walk.sameCursorCount) THEN "repeated cursor"
    ELSE IF EmptyPageLimit(walk.emptyPageCount) THEN "empty pages"
    ELSE IF walk.firstNull # 0 THEN "no cursor"
    ELSE IF walk.pageNumber > MAX_PAGES THEN "page cap"
    ELSE "none"

\* C31: when the walk has returned and nothing was thrown, however it
\* stopped, the accounts passed to saveUser are exactly the accounts the
\* fetch function delivered, each once and in the order of delivery, the
\* queue is empty, totalFollowings is the number of delivered accounts and
\* newFollowings + updatedFollowings = totalFollowings
C31_NoItemLost ==
    (walk.pc = "done" /\ walk.errors = 0) =>
        /\ StoppedBy # "none"
        /\ walk.saved = AllAccounts(walk.fetched)
        /\ walk.userQueue = <<>>
        /\ walk.totalFollowings = walk.fetched
        /\ walk.newFollowings + walk.updatedFollowings = walk.totalFollowings
        /\ walk.newFollowings = CountAbove(walk.saved, walk.known)

\* a walk stopped by the page cap whose last page was left in the queue and
\* saved by the final flush, with accounts of both kinds
C31_Witness ==
    /\ walk.pc = "done"
    /\ walk.errors = 0
    /\ StoppedBy = "page cap"
    /\ walk.lastPageSize > 0
    /\ walk.fetched % QUEUE_FLUSH_SIZE # 0
    /\ walk.newFollowings > 0
    /\ walk.updatedFollowings > 0
    /\ walk.totalFollowings = walk.fetched


Waiters == {g \in GenIds : gens[g].pc = "waiting"}

\* calls are numbered in the order in which they were made
InCallOrder(q) == \A i, j \in 1..Len(q) : i < j => q[i] < q[j]

\* what a step does to the callers that wait, release or arrive
HandOff ==
    /\ \A g \in GenIds :
        gens[g].pc = "waiting" /\ gens'[g].pc # "waiting" =>
           /\ g = Head(throttler.requestQueue)
           /\ throttler'.requestQueue = Tail(throttler.requestQueue)
           /\ throttler'.currentRequests = throttler.currentRequests
           /\ gens'[g].pc = "query"
           /\ \E h \in GenIds :
                 gens[h].pc = "finally" /\ gens'[h].pc = "returned"
    /\ \A h \in GenIds :
        gens[h].pc = "finally" /\ gens'[h].pc = "returned" =>
           IF Len(throttler.requestQueue) > 0
           THEN gens'[Head(throttler.requestQueue)].pc = "query"
           ELSE throttler'.currentRequests = throttler.currentRequests - 1
    /\ \A g \in GenIds :
        gens[g].pc = "idle" /\ gens'[g].pc # "idle"
            /\ Len(throttler.requestQueue) > 0 =>
           /\ gens'[g].pc = "waiting"
           /\ throttler'.requestQueue = Append(throttler.requestQueue, g)

\* C32: requestQueue holds the waiting callers in the order of their
\* acquireRequest calls and is non-empty only while currentRequests =
\* maxConcurrent; no caller that called later than a waiting one is past
\* its acquireRequest; a caller leaves the queue only as its head, in the
\* step of a releaseRequest that leaves currentRequests as it is, and enters
\* the body in that step; a call made while the queue is non-empty joins
\* the queue at its end
C32_FifoHandOff ==
    /\ [](/\ InCallOrder(throttler.requestQueue)
          /\ {throttler.requestQueue[i] : i \in 1..Len(throttler.requestQueue)}
                = Waiters
          /\ Len(throttler.requestQueue) = Cardinality(Waiters)
          /\ Len(throttler.requestQueue) > 0 =>
                throttler.currentRequests = maxConcurrent
          /\ \A g, h \in GenIds :
                g < h /\ gens[g].pc = "waiting" =>
                    gens[h].pc \in {"idle", "waiting"})
    /\ [][HandOff]_vars

\* two callers queued behind a running generation; the first of them has
\* been handed the slot and the second still waits
C32_Witness ==
    \E f, g, h \in GenIds :
        /\ f < g /\ g < h
        /\ gens[f].pc = "returned"
        /\ gens[g].waited /\ InBody(g)
        /\ gens[h].pc = "waiting"
        /\ throttler.requestQueue = <<h>>
        /\ throttler.currentRequests = maxConcurrent


\* a call releases in its finally block and nowhere else
ReleasedOnce ==
    \A g \in GenIds :
        /\ gens[g].pc # "rejected"
        /\ gens[g].released = IF gens[g].pc = "returned" THEN 1 ELSE 0

\* C33: a call of generateAndSaveSummary has released the slot exactly once
\* when it has returned and not before, whichever way it went (summary
\* stored, no posts, error row stored, error row not stored); when the store
\* and the AI call always answer, every caller that waits in the queue gets
\* into the body and a throttler in use gets back to currentRequests = 0
\* with an empty queue
C33_NoSlotLeak ==
    /\ []ReleasedOnce
    /\ \A g \in GenIds : (gens[g].pc = "waiting") ~> InBody(g)
    /\ (throttler.currentRequests > 0) ~> (throttler = IdleThrottler)

\* three calls have returned, one after waiting, with a stored summary, an
\* empty run and an error row that could not be stored among them, and the
\* throttler is idle again
C33_Witness ==
    /\ throttler = IdleThrottler
    /\ \A g \in GenIds : gens[g].pc = "returned" /\ gens[g].released = 1
    /\ \E g \in GenIds : gens[g].waited
    /\ \E g \in GenIds : gens[g].result = "row"
    /\ \E g \in GenIds : gens[g].errorSaveFailed
    /\ \E g \in GenIds :
          gens[g].result = "null" /\ gens[g].escaped = "none"


\* the saves the cycle f has dispatched and that have not settled
Unsettled == {c \in CallIds : InFlight(c)}

\* C34: when pollAllUsers has resolved, every saveTweetsToDatabase call it
\* dispatched has resolved or rejected
C34_CompletionImpliesPersistence ==
    \A f \in FiringIds :
        (cycles[f].kind = "users" /\ cycles[f].pc = "resolved") =>
            Unsettled = {}


\* call g stores its summary in this step
StoresSummary(g) == gens[g].pc = "save" /\ gens'[g].pc = "finally"

\* the row call g has stored in this step
NewRow(g) == CHOOSE r \in summaries' : r.id = gens'[g].rowId

\* C35: a row with status success is stored only for a summary that is the
\* content of an AI answer; a call whose AI request failed stores a row
\* with status error, and a call that found no posts stores a row with
\* status empty and tweet_count 0
C35_StatusReflectsOutcome ==
    [][\A g \in GenIds :
         /\ StoresSummary(g) =>
               (NewRow(g).status = "success" <=> gens[g].aiOutcome = "content")
         /\ StoresSummary(g) /\ gens[g].aiOutcome = "error" =>
               NewRow(g).status = "error"
         /\ gens[g].pc = "saveEmpty" /\ gens'[g].pc = "finally" =>
               NewRow(g).status = "empty" /\ NewRow(g).tweet_count = 0]_vars

\* C36: the tweet_count and the window of a row stored with status success
\* are the number of posts the AI answer was computed over and the window
\* generateSummary queried
C36_MetadataMatchesInput ==
    [][\A g \in GenIds :
         StoresSummary(g) /\ NewRow(g).status = "success" =>
            /\ NewRow(g).tweet_count = gens[g].aiTweets
            /\ NewRow(g).start_time = gens[g].aiStart
            /\ NewRow(g).end_time = gens[g].aiEnd]_vars


\* the saveUser calls of one Promise.all that carry the account id i
CallsFor(i) ==
    {c \in UserCallIds : usave.calls[c].pc # "idle" /\ usave.calls[c].user.id = i}

\* C37: when the calls of one batch carry the same account id more than
\* once, none of them is rejected, at most one of them reports inserted,
\* and once they have all finished the account has its row and the others
\* have reported updated
C37_ConcurrentSameId ==
    \A i \in AccountIds :
        Cardinality(CallsFor(i)) > 1 =>
            /\ \A c \in CallsFor(i) : usave.calls[c].pc # "rejected"
            /\ Cardinality({c \in CallsFor(i) :
                              usave.calls[c].result = "inserted"}) <= 1
            /\ CallsFor(i) \subseteq FinishedUserCalls =>
                  /\ usave.users[i] # NoUser
                  /\ \A c \in CallsFor(i) :
                        usave.calls[c].result \in {"inserted", "updated"}


\* the requests for the latest summary that have been answered
Answered == {k \in 1..Len(history) : history[k].pc = "sent"}

RowsOfPeriod(table, period) == {r \in table : r.period = period}
SuccessRows(table, period) ==
    {r \in table : r.period = period /\ r.status = "success"}

\* C38 as stated: the row served is the most recently created row of the
\* period, and a new summary is generated only when the period has no row
C38_LatestOfPeriod ==
    \A k \in Answered :
        LET req == history[k]
        IN  /\ req.gen # 0 => RowsOfPeriod(req.before, req.period) = {}
            /\ req.gen = 0 =>
                  /\ req.row \in RowsOfPeriod(req.before, req.period)
                  /\ \A q \in RowsOfPeriod(req.before, req.period) :
                        q.created_at <= req.row.created_at

\* C38: getLatestSummary(period) returns a row of that period with status
\* success than which no success row of the period was created later, and
\* none only when the period has no success row; GET /api/summary/:period
\* sends that row and leaves the table as it is whenever the period has a
\* success row, and calls generateAndSaveSummary only when it has none
C38_LatestSuccessOfPeriod ==
    \A k \in Answered :
        LET req == history[k]
        IN  /\ req.gen # 0 <=> SuccessRows(req.before, req.period) = {}
            /\ req.gen = 0 =>
                  /\ req.code = 200
                  /\ req.after = req.before
                  /\ req.row \in SuccessRows(req.before, req.period)
                  /\ \A q \in SuccessRows(req.before, req.period) :
                        q.created_at <= req.row.created_at
            /\ req.code = 200 =>
                  /\ req.row \in SuccessRows(req.after, req.period)
                  /\ \A q \in SuccessRows(req.after, req.period) :
                        q.created_at <= req.row.created_at

\* the hourly summary was served from a table whose newest hourly row is an
\* error row and whose newest row is a 12-hour summary
C38_Witness ==
    \E k \in Answered :
        LET req == history[k]
        IN  /\ req.period = "1hour"
            /\ req.gen = 0
            /\ req.code = 200
            /\ req.row.status = "success"
            /\ \E q \in req.before :
                  q.period = "1hour" /\ q.status = "error"
                      /\ q.created_at > req.row.created_at
            /\ \E q \in req.before :
                  q.period = "12hours" /\ q.created_at > req.row.created_at

====
